------------------------------- MODULE SetSums -------------------------------
(***************************************************************************)
(* Sums over finite sets, in the form that MapThenSumSet gives them: how a *)
(* sum changes with its set and with its terms, by first-order induction   *)
(* on the size of the set.                                                 *)
(***************************************************************************)
EXTENDS FiniteSetTheorems, FiniteSetsExt, TLAPS

Choice(T) == CHOOSE x \in T : TRUE
IsSum(g, S, f) == g = [T \in SUBSET S |-> IF T = {} THEN 0
                                          ELSE f[Choice(T)] + g[T \ {Choice(T)}]]
Total(S, f) == (CHOOSE g : IsSum(g, S, f))[S]

(* A set of numbers that has 0, and each successor, has them all.          *)
LEMMA Induct ==
  ASSUME NEW N \in SUBSET Nat, 0 \in N, \A n \in N : n + 1 \in N
  PROVE  \A n \in Nat : n \in N
<1> SUFFICES ASSUME Nat \ N # {} PROVE FALSE
  OBVIOUS
<1>1. PICK n \in Nat \ N : \A m \in Nat \ N : ~(m < n)
  <2>1. \A R, U : IsWellFoundedOn(R, U) =>
                    \A T : T \subseteq U /\ T # {} => \E x \in T : \A y \in T : ~(<<y, x>> \in R)
    BY WFMin
  <2>2. \A x, y \in Nat : y < x => <<y, x>> \in OpToRel(<, Nat)
    BY DEF OpToRel
  <2> HIDE DEF OpToRel
  <2>3. \E x \in Nat \ N : \A y \in Nat \ N : ~(<<y, x>> \in OpToRel(<, Nat))
    BY <2>1, NatLessThanWellFounded, Zenon
  <2> QED BY <2>2, <2>3, Zenon
<1>2. n # 0 /\ n - 1 \in Nat /\ n - 1 < n /\ (n - 1) + 1 = n
  BY <1>1
<1> QED BY <1>1, <1>2

LEMMA Nothing == IsFiniteSet({}) /\ Cardinality({}) = 0
BY FS_EmptySet

LEMMA OnlyNothing ==
  ASSUME NEW S, IsFiniteSet(S)
  PROVE  \A T \in SUBSET S : Cardinality(T) = 0 => T = {}
<1> TAKE T \in SUBSET S
<1>1. IsFiniteSet(T)
  BY FS_Subset
<1> QED BY <1>1, FS_EmptySet, Zenon

LEMMA Sized ==
  ASSUME NEW S, IsFiniteSet(S), NEW T \in SUBSET S
  PROVE  /\ IsFiniteSet(T) /\ Cardinality(T) \in Nat
         /\ T # {} => /\ Choice(T) \in T /\ Choice(T) \in S
                      /\ T \ {Choice(T)} \in SUBSET S
                      /\ Cardinality(T \ {Choice(T)}) = Cardinality(T) - 1
                      /\ Cardinality(T) > 0
<1>1. IsFiniteSet(T) /\ Cardinality(T) \in Nat
  BY FS_Subset, FS_CardinalityType
<1>2. ASSUME T # {} PROVE Choice(T) \in T
  BY <1>2 DEF Choice
<1>3. ASSUME T # {} PROVE Cardinality(T) # 0
  BY <1>1, <1>3, FS_EmptySet
<1>4. ASSUME T # {} PROVE Cardinality(T \ {Choice(T)}) = Cardinality(T) - 1
  BY <1>1, <1>2, <1>4, FS_RemoveElement
<1> QED BY <1>1, <1>2, <1>3, <1>4

LEMMA SumExists ==
  ASSUME NEW S, IsFiniteSet(S), NEW f, \A x \in S : f[x] \in Int
  PROVE  \E g : IsSum(g, S, f)
<1> DEFINE Body(g, T) == IF T = {} THEN 0 ELSE f[Choice(T)] + g[T \ {Choice(T)}]
           Good(n, g) == \A T \in SUBSET S : Cardinality(T) <= n => g[T] = Body(g, T)
           N == {n \in Nat : \E g \in [SUBSET S -> Int] : Good(n, g)}
<1>1. 0 \in N
  <2> DEFINE g == [T \in SUBSET S |-> 0]
  <2>1. g \in [SUBSET S -> Int]
    OBVIOUS
  <2>2. Good(0, g)
    BY Sized
  <2> QED BY <2>1, <2>2
<1>2. ASSUME NEW n \in N PROVE n + 1 \in N
  <2>1. PICK g \in [SUBSET S -> Int] : Good(n, g)
    BY <1>2
  <2> DEFINE h == [T \in SUBSET S |-> IF Cardinality(T) <= n THEN g[T] ELSE Body(g, T)]
  <2>2. h \in [SUBSET S -> Int]
    BY Sized
  <2>3. ASSUME NEW T \in SUBSET S, Cardinality(T) <= n + 1 PROVE h[T] = Body(h, T)
    <3>1. ASSUME T # {} PROVE h[T \ {Choice(T)}] = g[T \ {Choice(T)}]
      BY <1>2, <2>3, <3>1, Sized
    <3>2. h[T] = Body(g, T)
      BY <2>1, <2>3
    <3> HIDE DEF h
    <3> QED BY <3>1, <3>2
  <2>4. Good(n + 1, h)
    BY <2>3
  <2>5. n + 1 \in Nat
    BY <1>2
  <2> HIDE DEF h, Good
  <2>6. \E g1 \in [SUBSET S -> Int] : Good(n + 1, g1)
    BY <2>2, <2>4
  <2> QED BY <2>5, <2>6, Zenon
<1>3. Cardinality(S) \in N
  <2> HIDE DEF N
  <2> QED BY <1>1, <1>2, Induct, Sized DEF N
<1>4. PICK g \in [SUBSET S -> Int] : Good(Cardinality(S), g)
  BY <1>3
<1>5. \A T \in SUBSET S : g[T] = Body(g, T)
  BY <1>4, FS_Subset
<1> QED BY <1>5 DEF IsSum

LEMMA SumBody ==
  ASSUME NEW S, NEW f, NEW g, IsSum(g, S, f)
  PROVE  /\ g[{}] = 0
         /\ \A T \in SUBSET S : T # {} => g[T] = f[Choice(T)] + g[T \ {Choice(T)}]
BY DEF IsSum

LEMMA SumTyped ==
  ASSUME NEW S, IsFiniteSet(S), NEW f, \A x \in S : f[x] \in Int, NEW g, IsSum(g, S, f)
  PROVE  \A T \in SUBSET S : g[T] \in Int
<1>0. \A T \in SUBSET S :
        /\ Cardinality(T) \in Nat
        /\ T # {} => /\ Choice(T) \in T /\ T \ {Choice(T)} \in SUBSET S
                     /\ Cardinality(T \ {Choice(T)}) = Cardinality(T) - 1
                     /\ Cardinality(T) > 0
  BY Sized
<1> DEFINE N == {n \in Nat : \A T \in SUBSET S : Cardinality(T) = n => g[T] \in Int}
<1>1. 0 \in N
  <2>1. \A T \in SUBSET S : Cardinality(T) = 0 => T = {}
    BY OnlyNothing
  <2>2. g[{}] \in Int
    BY SumBody
  <2> QED BY <2>1, <2>2
<1>2. ASSUME NEW n \in N PROVE n + 1 \in N
  <2> SUFFICES ASSUME NEW T \in SUBSET S, Cardinality(T) = n + 1 PROVE g[T] \in Int
    OBVIOUS
  <2>1. T # {}
    BY <1>2, Nothing
  <2>2. g[T \ {Choice(T)}] \in Int /\ f[Choice(T)] \in Int
    BY <1>2, <2>1, <1>0
  <2> QED BY <2>1, <2>2, SumBody
<1> HIDE DEF N
<1>3. \A n \in Nat : n \in N
  BY <1>1, <1>2, Induct DEF N
<1> QED BY <1>3, <1>0 DEF N

(* Sums depend on their terms alone.                                       *)
LEMMA SumsAgree ==
  ASSUME NEW S, IsFiniteSet(S), NEW f, NEW g, IsSum(g, S, f),
         NEW R, NEW e, NEW h, IsSum(h, R, e), S \subseteq R, \A x \in S : f[x] = e[x]
  PROVE  \A T \in SUBSET S : g[T] = h[T]
<1>0. \A T \in SUBSET S :
        /\ Cardinality(T) \in Nat
        /\ T # {} => /\ Choice(T) \in T /\ T \ {Choice(T)} \in SUBSET S
                     /\ Cardinality(T \ {Choice(T)}) = Cardinality(T) - 1
                     /\ Cardinality(T) > 0
  BY Sized
<1> DEFINE N == {n \in Nat : \A T \in SUBSET S : Cardinality(T) = n => g[T] = h[T]}
<1>1. 0 \in N
  <2> SUFFICES ASSUME NEW T \in SUBSET S, Cardinality(T) = 0 PROVE g[T] = h[T]
    OBVIOUS
  <2>1. T = {}
    BY OnlyNothing
  <2>2. g[{}] = h[{}]
    BY SumBody
  <2> QED BY <2>1, <2>2
<1>2. ASSUME NEW n \in N PROVE n + 1 \in N
  <2> SUFFICES ASSUME NEW T \in SUBSET S, Cardinality(T) = n + 1 PROVE g[T] = h[T]
    OBVIOUS
  <2>1. T # {} /\ T \in SUBSET R
    BY <1>2, Nothing
  <2>2. g[T \ {Choice(T)}] = h[T \ {Choice(T)}] /\ f[Choice(T)] = e[Choice(T)]
    BY <1>2, <2>1, <1>0
  <2> QED BY <2>1, <2>2, SumBody
<1> HIDE DEF N
<1>3. \A n \in Nat : n \in N
  BY <1>1, <1>2, Induct DEF N
<1> QED BY <1>3, <1>0 DEF N

(* Nor on the order in which they are taken.                               *)
LEMMA SumTakes ==
  ASSUME NEW S, IsFiniteSet(S), NEW f, \A x \in S : f[x] \in Int, NEW g, IsSum(g, S, f)
  PROVE  \A T \in SUBSET S : \A x \in T : g[T] = f[x] + g[T \ {x}]
<1>0. \A T \in SUBSET S :
        /\ Cardinality(T) \in Nat
        /\ T # {} => /\ Choice(T) \in T /\ T \ {Choice(T)} \in SUBSET S
                     /\ Cardinality(T \ {Choice(T)}) = Cardinality(T) - 1
                     /\ Cardinality(T) > 0
  BY Sized
<1> DEFINE N == {n \in Nat : \A T \in SUBSET S : Cardinality(T) = n => \A x \in T : g[T] = f[x] + g[T \ {x}]}
<1>1. 0 \in N
  <2>1. \A T \in SUBSET S : Cardinality(T) = 0 => T = {}
    BY OnlyNothing
  <2> QED BY <2>1
<1>2. ASSUME NEW n \in N PROVE n + 1 \in N
  <2> SUFFICES ASSUME NEW T \in SUBSET S, Cardinality(T) = n + 1, NEW x \in T PROVE g[T] = f[x] + g[T \ {x}]
    OBVIOUS
  <2> DEFINE y == Choice(T)
             U == T \ {x, y}
  <2>0. T # {} /\ n \in Nat
    BY <1>2
  <2>1. y \in T /\ T \ {y} \in SUBSET S /\ Cardinality(T \ {y}) = n /\ g[T] = f[y] + g[T \ {y}]
    BY <1>0, <2>0, SumBody
  <2>2. T \ {x} \in SUBSET S /\ Cardinality(T \ {x}) = n
    <3>1. IsFiniteSet(T)
      BY FS_Subset
    <3>2. Cardinality(T \ {x}) = Cardinality(T) - 1
      BY <3>1, FS_RemoveElement
    <3> QED BY <2>0, <3>2
  <2>3. CASE x = y
    BY <2>1, <2>3
  <2>4. CASE x # y
    <3>1. g[T \ {y}] = f[x] + g[(T \ {y}) \ {x}] /\ g[T \ {x}] = f[y] + g[(T \ {x}) \ {y}]
      BY <1>2, <2>1, <2>2, <2>4
    <3>2. (T \ {y}) \ {x} = U /\ (T \ {x}) \ {y} = U /\ U \in SUBSET S
      OBVIOUS
    <3>3. g[U] \in Int /\ f[x] \in Int /\ f[y] \in Int
      BY <2>1, <3>2, SumTyped
    <3> HIDE DEF y, U
    <3>4. g[T \ {y}] = f[x] + g[U] /\ g[T \ {x}] = f[y] + g[U]
      BY <3>1, <3>2, Zenon
    <3> QED BY <2>1, <3>3, <3>4
  <2> QED BY <2>3, <2>4
<1> HIDE DEF N
<1>3. \A n \in Nat : n \in N
  BY <1>1, <1>2, Induct DEF N
<1> QED BY <1>3, <1>0 DEF N

-----------------------------------------------------------------------------
(* The sum of a whole set. *)
LEMMA TotalIs ==
  ASSUME NEW S, IsFiniteSet(S), NEW f, \A x \in S : f[x] \in Int
  PROVE  \E g : IsSum(g, S, f) /\ Total(S, f) = g[S]
BY SumExists DEF Total

(* It has no terms but those of its set.                                   *)
LEMMA TotalSame ==
  ASSUME NEW S, IsFiniteSet(S), NEW f, NEW e, \A x \in S : f[x] \in Int /\ e[x] = f[x]
  PROVE  Total(S, f) = Total(S, e)
<1>1. PICK g : IsSum(g, S, f) /\ Total(S, f) = g[S]
  BY TotalIs
<1>2. PICK h : IsSum(h, S, e) /\ Total(S, e) = h[S]
  BY TotalIs
<1> QED BY <1>1, <1>2, SumsAgree

LEMMA TotalTyped ==
  ASSUME NEW S, IsFiniteSet(S), NEW f, \A x \in S : f[x] \in Int
  PROVE  Total(S, f) \in Int
BY TotalIs, SumTyped

LEMMA TotalNone == \A f : Total({}, f) = 0
<1> TAKE f
<1>1. PICK g : IsSum(g, {}, f) /\ Total({}, f) = g[{}]
  BY TotalIs, FS_EmptySet
<1> QED BY <1>1 DEF IsSum

(* One term more, or less.                                                 *)
LEMMA TotalTakes ==
  ASSUME NEW S, IsFiniteSet(S), NEW f, \A y \in S : f[y] \in Int, NEW x \in S
  PROVE  /\ IsFiniteSet(S \ {x}) /\ Total(S \ {x}, f) \in Int
         /\ Total(S, f) = f[x] + Total(S \ {x}, f)
<1>1. PICK g : IsSum(g, S, f) /\ Total(S, f) = g[S]
  BY TotalIs
<1>2. IsFiniteSet(S \ {x})
  BY FS_RemoveElement
<1>3. PICK h : IsSum(h, S \ {x}, f) /\ Total(S \ {x}, f) = h[S \ {x}]
  BY <1>2, TotalIs
<1>4. h[S \ {x}] = g[S \ {x}]
  BY <1>1, <1>2, <1>3, SumsAgree
<1>5. g[S] = f[x] + g[S \ {x}]
  BY <1>1, SumTakes
<1>6. Total(S \ {x}, f) \in Int
  BY <1>2, TotalTyped
<1> QED BY <1>1, <1>2, <1>3, <1>4, <1>5, <1>6
=============================================================================
