-------------------------------- MODULE Sums --------------------------------
(***************************************************************************)
(* Sums over finite sets, as MapThenSumSet of FiniteSetsExt adds them up:  *)
(* one chosen member after the other.  What holds of a sum is shown for    *)
(* the smallest set it could fail for.                                     *)
(***************************************************************************)
EXTENDS Integers, FiniteSets, FiniteSetsExt, FiniteSetTheorems, WellFoundedInduction, TLAPS

Chosen(s) == CHOOSE x \in s : TRUE

(* One step of the recursion that adds up f over the set s. *)
SumStep(f, g, s) == IF s = {} THEN 0 ELSE f[Chosen(s)] + g[s \ {Chosen(s)}]

(* g has the sum of f over every subset of S. *)
IsSum(g, f, S) == g = [s \in SUBSET S |-> SumStep(f, g, s)]

(* A set of numbers that is not empty has a least one. *)
LEMMA Least ==
    ASSUME NEW T \in SUBSET Nat, T # {}
    PROVE  \E n \in T : \A m \in T : n <= m
<1>1. PICK n \in T : \A m \in T : <<m, n>> \notin OpToRel(<, Nat)
  BY NatLessThanWellFounded, WFMin
<1>2. \A m \in T : ~(m < n)
  BY <1>1 DEF OpToRel
<1> QED BY <1>2

(* What is left of a finite set without one of its members. *)
LEMMA OneLess ==
    ASSUME NEW s, IsFiniteSet(s), NEW x \in s
    PROVE  /\ IsFiniteSet(s \ {x}) /\ Cardinality(s) \in Nat \ {0}
           /\ Cardinality(s \ {x}) \in Nat /\ Cardinality(s \ {x}) = Cardinality(s) - 1
BY FS_RemoveElement, FS_CardinalityType, FS_EmptySet

LEMMA ChosenMember == ASSUME NEW s, s # {} PROVE Chosen(s) \in s
BY DEF Chosen

(* Every finite set has a sum. *)
LEMMA SumExists ==
    ASSUME NEW S, IsFiniteSet(S), NEW f \in [S -> Nat]
    PROVE  \E g \in [SUBSET S -> Nat] : IsSum(g, f, S)
<1> DEFINE Small(n) == {s \in SUBSET S : Cardinality(s) <= n}
           Good(n) == \E g \in [Small(n) -> Nat] : \A s \in Small(n) : g[s] = SumStep(f, g, s)
           Bad == {n \in Nat : ~Good(n)}
<1>1. \A s \in SUBSET S : IsFiniteSet(s) /\ Cardinality(s) \in Nat
  BY FS_Subset, FS_CardinalityType
<1>2. Good(0)
  <2> DEFINE g == [s \in Small(0) |-> 0]
  <2>1. \A s \in Small(0) : s = {}
    BY <1>1, FS_EmptySet
  <2>2. \A s \in Small(0) : g[s] = SumStep(f, g, s)
    BY <2>1 DEF SumStep
  <2>3. g \in [Small(0) -> Nat]
    OBVIOUS
  <2> QED BY <2>2, <2>3
<1>3. ASSUME NEW n \in Nat, Good(n) PROVE Good(n + 1)
  <2> HIDE DEF Small
  <2>1. PICK g \in [Small(n) -> Nat] : \A s \in Small(n) : g[s] = SumStep(f, g, s)
    BY <1>3
  <2> DEFINE h == [s \in Small(n + 1) |-> SumStep(f, g, s)]
  <2>2. \A s \in Small(n) : s \in Small(n + 1)
    BY <1>1 DEF Small
  <2>3. ASSUME NEW s \in Small(n + 1), s # {}
        PROVE  Chosen(s) \in S /\ s \ {Chosen(s)} \in Small(n)
    <3>1. s \in SUBSET S /\ Cardinality(s) <= n + 1
      BY DEF Small
    <3>2. Chosen(s) \in s /\ IsFiniteSet(s) /\ Cardinality(s) \in Nat
      BY <1>1, <2>3, <3>1, ChosenMember
    <3>3. Cardinality(s \ {Chosen(s)}) \in Nat /\ Cardinality(s \ {Chosen(s)}) = Cardinality(s) - 1
      BY <3>2, OneLess
    <3>4. Cardinality(s \ {Chosen(s)}) <= n
      BY <3>1, <3>2, <3>3
    <3> QED BY <3>1, <3>2, <3>4 DEF Small
  <2>4. \A s \in Small(n) : h[s] = g[s]
    BY <2>1, <2>2
  <2>5. ASSUME NEW s \in Small(n + 1) PROVE SumStep(f, g, s) \in Nat /\ h[s] = SumStep(f, h, s)
    <3>1. CASE s = {}
      BY <3>1 DEF SumStep
    <3>2. CASE s # {}
      <4>1. Chosen(s) \in S /\ s \ {Chosen(s)} \in Small(n)
        BY <2>3, <3>2
      <4>2. f[Chosen(s)] \in Nat /\ g[s \ {Chosen(s)}] \in Nat
        BY <4>1
      <4>3. h[s \ {Chosen(s)}] = g[s \ {Chosen(s)}]
        BY <2>4, <4>1
      <4> HIDE DEF h
      <4>4. SumStep(f, g, s) = f[Chosen(s)] + g[s \ {Chosen(s)}]
            /\ SumStep(f, h, s) = f[Chosen(s)] + h[s \ {Chosen(s)}]
        BY <3>2 DEF SumStep
      <4>5. h[s] = SumStep(f, g, s)
        BY DEF h
      <4> QED BY <4>2, <4>3, <4>4, <4>5
    <3> QED BY <3>1, <3>2
  <2>6. h \in [Small(n + 1) -> Nat]
    BY <2>5
  <2> HIDE DEF h
  <2> QED BY <2>5, <2>6
<1>4. \A n \in Nat : Good(n)
  <2> HIDE DEF Good
  <2> SUFFICES ASSUME Bad # {} PROVE FALSE
    OBVIOUS
  <2>1. PICK n \in Bad : \A m \in Bad : n <= m
    BY Least
  <2>2. n \in Nat /\ ~Good(n) /\ n # 0
    BY <1>2
  <2>3. n - 1 \in Nat /\ n - 1 \notin Bad /\ (n - 1) + 1 = n
    BY <2>1, <2>2
  <2>4. Good(n - 1)
    BY <2>3
  <2>5. Good((n - 1) + 1)
    BY <1>3, <2>3, <2>4
  <2> QED BY <2>2, <2>3, <2>5
<1>5. Small(Cardinality(S)) = SUBSET S
  BY FS_Subset
<1>6. Good(Cardinality(S))
  BY <1>1, <1>4
<1> HIDE DEF Small
<1>7. PICK g \in [SUBSET S -> Nat] : \A s \in SUBSET S : g[s] = SumStep(f, g, s)
  BY <1>5, <1>6
<1>8. g = [s \in SUBSET S |-> SumStep(f, g, s)]
  BY <1>7
<1> QED BY <1>8 DEF IsSum

(* The members of a set may be added up in any order. *)
LEMMA SumRemove ==
    ASSUME NEW S, IsFiniteSet(S), NEW f \in [S -> Nat],
           NEW g \in [SUBSET S -> Nat], IsSum(g, f, S)
    PROVE  \A s \in SUBSET S, x \in S : x \in s => g[s] = f[x] + g[s \ {x}]
<1> DEFINE Wrong(s, x) == g[s] # f[x] + g[s \ {x}]
           Bad == {n \in Nat : \E s \in SUBSET S : Cardinality(s) = n /\ \E x \in s : Wrong(s, x)}
<1>1. \A s \in SUBSET S : IsFiniteSet(s) /\ Cardinality(s) \in Nat
  BY FS_Subset, FS_CardinalityType
<1>2. ASSUME NEW s \in SUBSET S, s # {}
      PROVE  Chosen(s) \in s /\ g[s] = f[Chosen(s)] + g[s \ {Chosen(s)}]
  <2>1. g[s] = SumStep(f, g, s)
    BY DEF IsSum
  <2> QED BY <1>2, <2>1, ChosenMember DEF SumStep
<1> HIDE DEF Wrong
<1> SUFFICES ASSUME Bad # {} PROVE FALSE
  BY <1>1 DEF Wrong
<1>3. PICK n \in Bad : \A m \in Bad : n <= m
  BY Least
<1>4. PICK s \in SUBSET S : Cardinality(s) = n /\ \E x \in s : Wrong(s, x)
  BY <1>3
<1>5. PICK x \in s : Wrong(s, x)
  BY <1>4
<1> DEFINE c == Chosen(s)
<1>6. c \in s /\ g[s] = f[c] + g[s \ {c}] /\ c # x
  BY <1>2, <1>5 DEF Wrong
<1> HIDE DEF c
<1>7. /\ Cardinality(s \ {x}) \in Nat /\ Cardinality(s \ {x}) < n
      /\ Cardinality(s \ {c}) \in Nat /\ Cardinality(s \ {c}) < n
  BY <1>1, <1>3, <1>4, <1>6, OneLess
<1>8. ASSUME NEW t \in SUBSET S, Cardinality(t) \in Nat, Cardinality(t) < n, NEW y \in t
      PROVE  g[t] = f[y] + g[t \ {y}]
  <2>1. Cardinality(t) \notin Bad
    BY <1>3, <1>8
  <2> QED BY <1>8, <2>1 DEF Wrong
<1>9. s \ {x} \in SUBSET S /\ s \ {c} \in SUBSET S /\ c \in s \ {x} /\ x \in s \ {c}
  BY <1>6
<1>10. /\ g[s \ {c}] = f[x] + g[(s \ {c}) \ {x}]
       /\ g[s \ {x}] = f[c] + g[(s \ {x}) \ {c}]
  BY <1>7, <1>8, <1>9
<1>11. (s \ {c}) \ {x} = (s \ {x}) \ {c}
  OBVIOUS
<1>12. PICK r \in Nat : r = g[(s \ {x}) \ {c}]
  BY <1>9
<1>13. f[x] \in Nat /\ f[c] \in Nat
  BY <1>6
<1>14. g[s] = f[c] + (f[x] + r) /\ g[s \ {x}] = f[c] + r
  BY <1>6, <1>10, <1>11, <1>12
<1>15. g[s] = f[x] + g[s \ {x}]
  BY <1>12, <1>13, <1>14
<1> QED BY <1>5, <1>15 DEF Wrong

(* A sum depends on what is added up only. *)
LEMMA SumLocal ==
    ASSUME NEW S, IsFiniteSet(S), NEW f \in [S -> Nat], NEW k \in [S -> Nat],
           NEW g, IsSum(g, f, S), NEW h, IsSum(h, k, S), NEW T \in SUBSET S,
           \A x \in T : f[x] = k[x]
    PROVE  g[T] = h[T]
<1> DEFINE Wrong(s) == g[s] # h[s]
           Bad == {n \in Nat : \E s \in SUBSET T : Cardinality(s) = n /\ Wrong(s)}
<1>1. \A s \in SUBSET T : IsFiniteSet(s) /\ Cardinality(s) \in Nat
  BY FS_Subset, FS_CardinalityType
<1>2. ASSUME NEW s \in SUBSET T PROVE g[s] = SumStep(f, g, s) /\ h[s] = SumStep(k, h, s)
  <2>1. s \in SUBSET S
    OBVIOUS
  <2> QED BY <2>1 DEF IsSum
<1> HIDE DEF Wrong
<1> SUFFICES ASSUME Bad # {} PROVE FALSE
  BY <1>1 DEF Wrong
<1>3. PICK n \in Bad : \A m \in Bad : n <= m
  BY Least
<1>4. PICK s \in SUBSET T : Cardinality(s) = n /\ Wrong(s)
  BY <1>3
<1> DEFINE c == Chosen(s)
<1>5. s # {}
  BY <1>2, <1>4 DEF SumStep, Wrong
<1>6. c \in s /\ f[c] = k[c] /\ g[s] = f[c] + g[s \ {c}] /\ h[s] = k[c] + h[s \ {c}]
  BY <1>2, <1>5, ChosenMember DEF SumStep
<1> HIDE DEF c
<1>7. Cardinality(s \ {c}) \in Nat /\ Cardinality(s \ {c}) < n
  BY <1>1, <1>3, <1>4, <1>6, OneLess
<1>8. ~Wrong(s \ {c})
  BY <1>3, <1>7
<1> QED BY <1>4, <1>6, <1>8 DEF Wrong

(* A term of a sum can be taken out of it. *)
Splits(g, f, S, y) == g[S] = f[y] + g[S \ {y}]
LEMMA SumSplit ==
    ASSUME NEW S, IsFiniteSet(S), NEW f \in [S -> Nat],
           NEW g \in [SUBSET S -> Nat], IsSum(g, f, S), NEW y \in S
    PROVE  Splits(g, f, S, y)
<1>1. \A s \in SUBSET S, x \in S : x \in s => g[s] = f[x] + g[s \ {x}]
  BY SumRemove
<1> QED BY <1>1 DEF Splits

(* When one of the terms changes, the sum changes by as much. *)
Shifts(g, f, h, k, S, y) == \E r \in Nat : g[S] = f[y] + r /\ h[S] = k[y] + r

(* The sums of two functions that differ at y only. *)
LEMMA SumShifts ==
    ASSUME NEW S, IsFiniteSet(S), NEW f \in [S -> Nat], NEW k \in [S -> Nat],
           NEW g \in [SUBSET S -> Nat], IsSum(g, f, S),
           NEW h \in [SUBSET S -> Nat], IsSum(h, k, S),
           NEW y \in S, \A x \in S \ {y} : f[x] = k[x]
    PROVE  Shifts(g, f, h, k, S, y)
<1>1. Splits(g, f, S, y) /\ Splits(h, k, S, y)
  BY SumSplit, Zenon
<1>2. g[S \ {y}] = h[S \ {y}]
  BY SumLocal
<1>3. g[S \ {y}] \in Nat
  OBVIOUS
<1> QED BY <1>1, <1>2, <1>3 DEF Splits, Shifts

(* MapThenSumSet is a sum. *)
LEMMA SumOfMap ==
    ASSUME NEW S, IsFiniteSet(S), NEW f \in [S -> Nat]
    PROVE  \E g \in [SUBSET S -> Nat] : IsSum(g, f, S) /\ MapThenSumSet(LAMBDA x : f[x], S) = g[S]
<1> DEFINE Adds(g) == g = [s \in SUBSET S |->
                             IF s = {} THEN 0
                             ELSE LET x == CHOOSE x \in s : TRUE IN f[x] + g[s \ {x}]]
           iter == CHOOSE g : Adds(g)
<1>1. PICK g \in [SUBSET S -> Nat] : IsSum(g, f, S)
  BY SumExists
<1>2. Adds(g)
  BY <1>1 DEF IsSum, SumStep, Chosen
<1>3. Adds(iter)
  BY <1>2
<1>4. MapThenSumSet(LAMBDA x : f[x], S) = iter[S]
  BY DEF MapThenSumSet, MapThenFoldSet
<1> HIDE DEF iter
<1>5. IsSum(iter, f, S)
  BY <1>3 DEF IsSum, SumStep, Chosen
<1>6. iter \in [SUBSET S -> Nat]
  <2>1. ASSUME NEW T \in SUBSET S PROVE iter[T] = g[T]
    BY <1>1, <1>5, SumLocal
  <2>2. iter = [s \in SUBSET S |-> iter[s]]
    BY <1>3
  <2> QED BY <2>1, <2>2
<1> QED BY <1>4, <1>5, <1>6

(* How many of n things belong to x. *)
Share(owner, n, x) == Cardinality({i \in 1..n : owner[i] = x})

(* A sum is bounded by a number of things when every term is bounded by    *)
(* the number of those that belong to it, and each belongs to one.         *)
LEMMA SumBounded ==
    ASSUME NEW S, IsFiniteSet(S), NEW f \in [S -> Nat],
           NEW g \in [SUBSET S -> Nat], IsSum(g, f, S),
           NEW N \in Nat, NEW owner,
           \A x \in S : f[x] <= Share(owner, N, x)
    PROVE  g[S] <= N
<1> DEFINE Of(s) == {n \in 1..N : owner[n] \in s}
           Wrong(s) == ~(g[s] <= Cardinality(Of(s)))
           Bad == {n \in Nat : \E s \in SUBSET S : Cardinality(s) = n /\ Wrong(s)}
<1>1. \A s \in SUBSET S : IsFiniteSet(s) /\ Cardinality(s) \in Nat
  BY FS_Subset, FS_CardinalityType
<1>2. IsFiniteSet(1..N) /\ Cardinality(1..N) = N
  BY FS_Interval
<1>3. ASSUME NEW T \in SUBSET (1..N)
      PROVE  IsFiniteSet(T) /\ Cardinality(T) \in Nat /\ Cardinality(T) <= N
  <2> DEFINE all == 1..N
  <2>0. IsFiniteSet(all) /\ T \in SUBSET all
    BY <1>2
  <2> HIDE DEF all
  <2>1. IsFiniteSet(T) /\ Cardinality(T) <= Cardinality(all)
    BY <2>0, FS_Subset
  <2> USE DEF all
  <2> QED BY <1>2, <2>1, FS_CardinalityType
<1>4. \A s \in SUBSET S : Of(s) \in SUBSET (1..N)
  OBVIOUS
<1>5. \A s \in SUBSET S : g[s] <= Cardinality(Of(s))
  <2> SUFFICES ASSUME Bad # {} PROVE FALSE
    BY <1>1
  <2> HIDE DEF Wrong
  <2>1. PICK n \in Bad : \A m \in Bad : n <= m
    BY Least
  <2>2. PICK s \in SUBSET S : Cardinality(s) = n /\ Wrong(s)
    BY <2>1
  <2>3. g[s] = SumStep(f, g, s)
    BY DEF IsSum
  <2>4. s # {}
    <3> SUFFICES ASSUME s = {} PROVE FALSE
      OBVIOUS
    <3>1. g[s] = 0
      BY <2>3 DEF SumStep
    <3>2. Cardinality(Of(s)) \in Nat
      BY <1>3, <1>4
    <3> QED BY <2>2, <3>1, <3>2 DEF Wrong
  <2> DEFINE c == Chosen(s)
             mine == {m \in 1..N : owner[m] = c}
             rest == Of(s \ {c})
  <2>5. c \in s /\ g[s] = f[c] + g[s \ {c}]
    BY <2>3, <2>4, ChosenMember DEF SumStep
  <2> HIDE DEF c
  <2>6. Cardinality(s \ {c}) \in Nat /\ Cardinality(s \ {c}) < n
    BY <1>1, <2>1, <2>2, <2>5, OneLess
  <2>7. g[s \ {c}] <= Cardinality(rest)
    <3>0. n \in Nat
      OBVIOUS
    <3>1. Cardinality(s \ {c}) \notin Bad
      <4> HIDE DEF Bad
      <4> QED BY <2>1, <2>6, <3>0
    <3>2. s \ {c} \in SUBSET S
      OBVIOUS
    <3>3. ~Wrong(s \ {c})
      BY <3>1, <3>2, <2>6
    <3> QED BY <3>3 DEF Wrong
  <2>8. f[c] <= Cardinality(mine)
    BY <2>5 DEF Share
  <2>9. Of(s) = mine \cup rest /\ mine \cap rest = {}
    BY <2>5
  <2>10. mine \in SUBSET (1..N) /\ rest \in SUBSET (1..N)
    OBVIOUS
  <2>11. Wrong(s) => ~(g[s] <= Cardinality(mine \cup rest))
    BY <2>9 DEF Wrong
  <2> HIDE DEF mine, rest, Of
  <2>12. Cardinality(mine \cup rest) = Cardinality(mine) + Cardinality(rest)
    <3>1. IsFiniteSet(mine) /\ IsFiniteSet(rest) /\ Cardinality(mine) \in Nat /\ Cardinality(rest) \in Nat
      BY <1>3, <2>10
    <3>2. Cardinality(mine \cup rest) = Cardinality(mine) + Cardinality(rest) - Cardinality(mine \cap rest)
      BY <3>1, FS_Union
    <3>3. Cardinality(mine \cap rest) = 0
      BY <2>9, FS_EmptySet
    <3> QED BY <3>1, <3>2, <3>3
  <2>13. f[c] \in Nat /\ g[s \ {c}] \in Nat /\ Cardinality(mine) \in Nat /\ Cardinality(rest) \in Nat
    BY <1>3, <2>5, <2>10
  <2> QED BY <2>2, <2>5, <2>7, <2>8, <2>11, <2>12, <2>13
<1>6. g[S] <= Cardinality(Of(S)) /\ Cardinality(Of(S)) <= N
  BY <1>3, <1>4, <1>5
<1>7. g[S] \in Nat /\ Cardinality(Of(S)) \in Nat
  BY <1>3, <1>4
<1> HIDE DEF Of
<1> QED BY <1>6, <1>7

(* A finite set of numbers has a greatest one. *)
LEMMA Greatest ==
    ASSUME NEW T \in SUBSET Nat, IsFiniteSet(T), T # {}
    PROVE  \E n \in T : \A m \in T : m <= n
<1> DEFINE Top(s) == \E n \in s : \A m \in s : m <= n
           Bad == {k \in Nat : \E s \in SUBSET T : s # {} /\ Cardinality(s) = k /\ ~Top(s)}
<1>1. \A s \in SUBSET T : IsFiniteSet(s) /\ Cardinality(s) \in Nat
  BY FS_Subset, FS_CardinalityType
<1> SUFFICES ASSUME Bad # {} PROVE FALSE
  BY <1>1
<1>2. PICK k \in Bad : \A m \in Bad : k <= m
  BY Least
<1>3. PICK s \in SUBSET T : s # {} /\ Cardinality(s) = k /\ ~Top(s)
  BY <1>2
<1>4. PICK x \in s : TRUE
  BY <1>3
<1>5. Cardinality(s \ {x}) \in Nat /\ Cardinality(s \ {x}) < k
  BY <1>1, <1>2, <1>3, <1>4, OneLess
<1>6. s \ {x} # {}
  BY <1>3, <1>4
<1>7. Top(s \ {x})
  <2>0. k \in Nat
    OBVIOUS
  <2>1. Cardinality(s \ {x}) \notin Bad
    <3> HIDE DEF Bad
    <3> QED BY <1>2, <1>5, <2>0
  <2> QED BY <1>5, <1>6, <2>1
<1>8. PICK y \in s \ {x} : \A m \in s \ {x} : m <= y
  BY <1>7
<1>9. x \in Nat /\ y \in Nat
  OBVIOUS
<1>10. CASE x <= y
  BY <1>3, <1>8, <1>10
<1>11. CASE y <= x
  BY <1>3, <1>8, <1>9, <1>11
<1> QED BY <1>9, <1>10, <1>11
=============================================================================
