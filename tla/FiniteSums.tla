------------------------------ MODULE FiniteSums ------------------------------
(***************************************************************************)
(* Sums over finite sets.  The models add up money, hours and rates with   *)
(* SumFunctionOnSet; here are the laws of addition that the proofs about   *)
(* them use: a sum does not depend on the order of its terms.              *)
(***************************************************************************)
EXTENDS Integers, FiniteSetsExt, Functions, FiniteSetTheorems, WellFoundedInduction, TLAPS

(* Induction over the subsets of a finite set, by the smallest that is     *)
(* not in G.                                                               *)
LEMMA SubsetInduction ==
  ASSUME NEW S, IsFiniteSet(S), NEW G, {} \in G,
         \A T \in SUBSET S : T # {} /\ (\A x \in T : T \ {x} \in G) => T \in G
  PROVE  S \in G
<1> DEFINE Sizes == {n \in Nat : \E T \in SUBSET S : T \notin G /\ Cardinality(T) = n}
<1>1. SUFFICES ASSUME S \notin G PROVE FALSE
  OBVIOUS
<1>2. Cardinality(S) \in Sizes
  BY <1>1, FS_CardinalityType
<1>3. PICK n \in Sizes : \A m \in Sizes : <<m, n>> \notin OpToRel(<, Nat)
  <2>1. Sizes \subseteq Nat /\ Sizes # {}
    BY <1>2
  <2> HIDE DEF Sizes
  <2> QED BY <2>1, WFMin, NatLessThanWellFounded, Zenon
<1>4. PICK T \in SUBSET S : T \notin G /\ Cardinality(T) = n
  BY <1>3
<1>5. IsFiniteSet(T)
  BY FS_Subset
<1>6. ASSUME NEW x \in T PROVE T \ {x} \in G
  <2> DEFINE m == Cardinality(T \ {x})
  <2>1. m = n - 1 /\ n \in Nat /\ m \in Nat
    BY <1>4, <1>5, FS_RemoveElement, FS_CardinalityType
  <2> HIDE DEF m
  <2>2. <<m, n>> \in OpToRel(<, Nat)
    <3>1. OpToRel(<, Nat) = {pair \in Nat \X Nat : pair[1] < pair[2]}
      BY Zenon DEF OpToRel
    <3>2. <<m, n>> \in {pair \in Nat \X Nat : pair[1] < pair[2]}
      <4>1. m < n
        BY <2>1
      <4>2. <<m, n>> \in Nat \X Nat /\ <<m, n>>[1] = m /\ <<m, n>>[2] = n
        BY <2>1
      <4> QED BY <4>1, <4>2
    <3> QED BY <3>1, <3>2
  <2>3. m \notin Sizes
    BY <1>3, <2>2
  <2>4. T \ {x} \in SUBSET S
    OBVIOUS
  <2> QED BY <2>1, <2>3, <2>4 DEF m
<1> QED BY <1>4, <1>6

-----------------------------------------------------------------------------
(* The recursion by which the library defines a sum has a solution, and    *)
(* only one on the subsets of a finite set.                                *)

Taken(s) == CHOOSE x \in s : TRUE
Adds(f, S, g) ==
  g = [s \in SUBSET S |-> IF s = {} THEN 0 ELSE f[Taken(s)] + g[s \ {Taken(s)}]]

LEMMA TakenIn == \A s : s # {} => Taken(s) \in s
BY DEF Taken

LEMMA SumIs ==
  ASSUME NEW f, NEW S
  PROVE  SumFunctionOnSet(f, S) = (CHOOSE g : Adds(f, S, g))[S]
BY Zenon DEF SumFunctionOnSet, FoldFunctionOnSet, MapThenFoldSet, Adds, Taken

LEMMA AddsUnique ==
  ASSUME NEW f, NEW S, NEW T \in SUBSET S, IsFiniteSet(S),
         NEW g, Adds(f, S, g), NEW h, Adds(f, T, h)
  PROVE  g[T] = h[T]
<1> DEFINE G == {s \in SUBSET T : g[s] = h[s]}
<1>1. \A s \in SUBSET S : g[s] = IF s = {} THEN 0 ELSE f[Taken(s)] + g[s \ {Taken(s)}]
  BY Zenon DEF Adds
<1>2. \A s \in SUBSET T : h[s] = IF s = {} THEN 0 ELSE f[Taken(s)] + h[s \ {Taken(s)}]
  BY Zenon DEF Adds
<1>3. {} \in G
  <2>1. {} \in SUBSET S /\ {} \in SUBSET T
    OBVIOUS
  <2> QED BY <1>1, <1>2, <2>1
<1>4. ASSUME NEW s \in SUBSET T, s # {}, \A x \in s : s \ {x} \in G
      PROVE  s \in G
  <2>1. Taken(s) \in s /\ s \in SUBSET S
    BY <1>4, TakenIn
  <2>2. g[s \ {Taken(s)}] = h[s \ {Taken(s)}]
    BY <1>4, <2>1
  <2> QED BY <1>1, <1>2, <1>4, <2>1, <2>2
<1>5. IsFiniteSet(T)
  BY FS_Subset
<1> HIDE DEF G
<1>6. T \in G
  BY <1>3, <1>4, <1>5, SubsetInduction
<1> QED BY <1>6 DEF G

LEMMA AddsExists ==
  ASSUME NEW f, NEW S, IsFiniteSet(S)
  PROVE  \E g : Adds(f, S, g)
<1> DEFINE G == {T \in SUBSET S : \E g : Adds(f, T, g)}
<1>1. {} \in G
  <2> DEFINE g == [s \in SUBSET {} |-> 0]
  <2>1. Adds(f, {}, g)
    BY DEF Adds
  <2> QED BY <2>1
<1>2. ASSUME NEW T \in SUBSET S, T # {}, \A x \in T : T \ {x} \in G
      PROVE  T \in G
  <2> DEFINE Of(s) == CHOOSE g : Adds(f, s, g)
             g == [s \in SUBSET T |->
                    IF s = {} THEN 0 ELSE f[Taken(s)] + Of(s \ {Taken(s)})[s \ {Taken(s)}]]
  <2>1. ASSUME NEW s \in SUBSET T, s # T PROVE Adds(f, s, Of(s))
    <3>1. PICK x \in T : s \in SUBSET (T \ {x})
      BY <2>1
    <3>2. PICK h : Adds(f, T \ {x}, h)
      BY <1>2
    <3> DEFINE k == [u \in SUBSET s |-> h[u]]
    <3>3. ASSUME NEW u \in SUBSET s
          PROVE  k[u] = IF u = {} THEN 0 ELSE f[Taken(u)] + k[u \ {Taken(u)}]
      <4>1. u \in SUBSET (T \ {x}) /\ u \ {Taken(u)} \in SUBSET s
        BY <3>1
      <4>2. h[u] = IF u = {} THEN 0 ELSE f[Taken(u)] + h[u \ {Taken(u)}]
        BY <3>2, <4>1, Zenon DEF Adds
      <4> QED BY <4>1, <4>2
    <3>4. Adds(f, s, k)
      BY <3>3 DEF Adds
    <3> QED BY <3>4, Zenon
  <2>2. ASSUME NEW s \in SUBSET T, s # {}
        PROVE  g[s \ {Taken(s)}] = Of(s \ {Taken(s)})[s \ {Taken(s)}]
    <3> DEFINE u == s \ {Taken(s)}
               c == Taken(u)
    <3>1. u \in SUBSET T /\ u # T
      BY <2>2, TakenIn
    <3>2. Adds(f, u, Of(u))
      BY <2>1, <3>1
    <3>3. Of(u)[u] = IF u = {} THEN 0 ELSE f[c] + Of(u)[u \ {c}]
      <4>1. u \in SUBSET u
        OBVIOUS
      <4> HIDE DEF u
      <4> HIDE DEF Of
      <4> QED BY <3>2, <4>1, Zenon DEF Adds
    <3>6. g[u] = IF u = {} THEN 0 ELSE f[c] + Of(u \ {c})[u \ {c}]
      <4> HIDE DEF Of, u
      <4> QED BY <3>1
    <3>4. ASSUME u # {} PROVE Of(u)[u \ {c}] = Of(u \ {c})[u \ {c}]
      <4>1. u \ {c} \in SUBSET u /\ u \ {c} \in SUBSET T /\ u \ {c} # T
        BY <3>1, <3>4, TakenIn
      <4>2. Adds(f, u \ {c}, Of(u \ {c})) /\ IsFiniteSet(u)
        BY <2>1, <3>1, <4>1, FS_Subset
      <4> HIDE DEF Of, g, u, c
      <4> QED BY <3>2, <4>1, <4>2, AddsUnique
    <3>5. g[u] = Of(u)[u]
      <4> HIDE DEF Of, g, u, c
      <4> QED BY <3>3, <3>4, <3>6
    <3> QED BY <3>5
  <2>3. ASSUME NEW s \in SUBSET T
        PROVE  g[s] = IF s = {} THEN 0 ELSE f[Taken(s)] + g[s \ {Taken(s)}]
    <3>1. g[s] = IF s = {} THEN 0 ELSE f[Taken(s)] + Of(s \ {Taken(s)})[s \ {Taken(s)}]
      <4> HIDE DEF Of
      <4> QED OBVIOUS
    <3> HIDE DEF Of, g
    <3> QED BY <2>2, <3>1
  <2>4. Adds(f, T, g)
    <3>1. g = [s \in SUBSET T |-> g[s]]
      <4> HIDE DEF Of
      <4> QED OBVIOUS
    <3> HIDE DEF g
    <3> QED BY <2>3, <3>1 DEF Adds
  <2> QED BY <2>4
<1> HIDE DEF G
<1>3. S \in G
  BY <1>1, <1>2, SubsetInduction
<1> QED BY <1>3 DEF G

-----------------------------------------------------------------------------
(* The laws.                                                               *)

LEMMA SumEmpty == \A f : SumFunctionOnSet(f, {}) = 0
<1> SUFFICES ASSUME NEW f PROVE SumFunctionOnSet(f, {}) = 0
  OBVIOUS
<1> DEFINE g == CHOOSE g : Adds(f, {}, g)
<1>1. Adds(f, {}, g)
  BY FS_EmptySet, AddsExists, Zenon
<1>2. {} \in SUBSET {}
  OBVIOUS
<1> HIDE DEF g
<1>3. g[{}] = 0
  BY <1>1, <1>2, Zenon DEF Adds
<1> QED BY <1>3, SumIs DEF g

LEMMA SumTaken ==
  ASSUME NEW f, NEW S, IsFiniteSet(S), S # {}
  PROVE  /\ Taken(S) \in S
         /\ SumFunctionOnSet(f, S) = f[Taken(S)] + SumFunctionOnSet(f, S \ {Taken(S)})
<1> DEFINE T == S \ {Taken(S)}
           g == CHOOSE g : Adds(f, S, g)
           h == CHOOSE h : Adds(f, T, h)
<1>1. Adds(f, S, g)
  BY AddsExists, Zenon
<1>2. IsFiniteSet(T) /\ T \in SUBSET S
  BY FS_Subset
<1>3. Adds(f, T, h)
  BY <1>2, AddsExists, Zenon
<1>4. SumFunctionOnSet(f, S) = g[S] /\ SumFunctionOnSet(f, T) = h[T]
  BY SumIs
<1> HIDE DEF g, h
<1>5. g[T] = h[T]
  BY <1>1, <1>2, <1>3, AddsUnique
<1>6. g[S] = f[Taken(S)] + g[T]
  <2>1. S \in SUBSET S
    OBVIOUS
  <2> QED BY <1>1, <2>1, Zenon DEF Adds
<1> QED BY <1>4, <1>5, <1>6, TakenIn

LEMMA SumInt ==
  ASSUME NEW S, IsFiniteSet(S), NEW f, \A x \in S : f[x] \in Int
  PROVE  SumFunctionOnSet(f, S) \in Int
<1> DEFINE G == {T \in SUBSET S : SumFunctionOnSet(f, T) \in Int}
<1>1. {} \in G
  BY SumEmpty
<1>2. ASSUME NEW T \in SUBSET S, T # {}, \A x \in T : T \ {x} \in G
      PROVE  T \in G
  <2>1. IsFiniteSet(T)
    BY FS_Subset
  <2>2. Taken(T) \in T /\ SumFunctionOnSet(f, T) = f[Taken(T)] + SumFunctionOnSet(f, T \ {Taken(T)})
    BY <1>2, <2>1, SumTaken
  <2>3. f[Taken(T)] \in Int /\ SumFunctionOnSet(f, T \ {Taken(T)}) \in Int
    BY <1>2, <2>2
  <2> QED BY <2>2, <2>3
<1> HIDE DEF G
<1>3. S \in G
  BY <1>1, <1>2, SubsetInduction
<1> QED BY <1>3 DEF G

LEMMA SumOut ==
  ASSUME NEW S, IsFiniteSet(S), NEW f, \A x \in S : f[x] \in Int, NEW x \in S
  PROVE  SumFunctionOnSet(f, S) = f[x] + SumFunctionOnSet(f, S \ {x})
<1> DEFINE Out(T) == \A y \in T : SumFunctionOnSet(f, T) = f[y] + SumFunctionOnSet(f, T \ {y})
           G == {T \in SUBSET S : Out(T)}
<1>1. {} \in G
  OBVIOUS
<1>2. ASSUME NEW T \in SUBSET S, T # {}, \A y \in T : T \ {y} \in G
      PROVE  T \in G
  <2> DEFINE c == Taken(T)
  <2>1. IsFiniteSet(T)
    BY FS_Subset
  <2>2. c \in T /\ SumFunctionOnSet(f, T) = f[c] + SumFunctionOnSet(f, T \ {c})
    BY <1>2, <2>1, SumTaken
  <2> HIDE DEF c
  <2>3. ASSUME NEW y \in T, y # c
        PROVE  SumFunctionOnSet(f, T) = f[y] + SumFunctionOnSet(f, T \ {y})
    <3> DEFINE R == SumFunctionOnSet(f, T \ {y, c})
    <3>1. (T \ {c}) \ {y} = T \ {y, c} /\ (T \ {y}) \ {c} = T \ {y, c} /\ T \ {y, c} \in SUBSET S
      OBVIOUS
    <3>2. SumFunctionOnSet(f, T \ {c}) = f[y] + R
      BY <1>2, <2>2, <2>3, <3>1
    <3>3. SumFunctionOnSet(f, T \ {y}) = f[c] + R
      BY <1>2, <2>2, <2>3, <3>1
    <3>4. R \in Int /\ f[y] \in Int /\ f[c] \in Int
      <4>1. IsFiniteSet(T \ {y, c})
        BY <3>1, FS_Subset
      <4> QED BY <2>2, <3>1, <4>1, SumInt
    <3> HIDE DEF R
    <3> QED BY <2>2, <3>2, <3>3, <3>4
  <2> QED BY <2>2, <2>3
<1> HIDE DEF G
<1>3. S \in G
  BY <1>1, <1>2, SubsetInduction
<1> QED BY <1>3 DEF G

LEMMA SumIn ==
  ASSUME NEW S, IsFiniteSet(S), NEW f, \A y \in S : f[y] \in Int, NEW x, x \notin S, f[x] \in Int
  PROVE  SumFunctionOnSet(f, S \cup {x}) = f[x] + SumFunctionOnSet(f, S)
<1>1. IsFiniteSet(S \cup {x}) /\ (S \cup {x}) \ {x} = S /\ x \in S \cup {x}
  BY FS_AddElement
<1>2. \A y \in S \cup {x} : f[y] \in Int
  OBVIOUS
<1> QED BY <1>1, <1>2, SumOut

LEMMA SumSame ==
  ASSUME NEW S, IsFiniteSet(S), NEW f, NEW g, \A x \in S : f[x] = g[x]
  PROVE  SumFunctionOnSet(f, S) = SumFunctionOnSet(g, S)
<1> DEFINE G == {T \in SUBSET S : SumFunctionOnSet(f, T) = SumFunctionOnSet(g, T)}
<1>1. {} \in G
  BY SumEmpty
<1>2. ASSUME NEW T \in SUBSET S, T # {}, \A x \in T : T \ {x} \in G
      PROVE  T \in G
  <2>1. IsFiniteSet(T)
    BY FS_Subset
  <2>2. /\ Taken(T) \in T
        /\ SumFunctionOnSet(f, T) = f[Taken(T)] + SumFunctionOnSet(f, T \ {Taken(T)})
        /\ SumFunctionOnSet(g, T) = g[Taken(T)] + SumFunctionOnSet(g, T \ {Taken(T)})
    BY <1>2, <2>1, SumTaken
  <2>3. SumFunctionOnSet(f, T \ {Taken(T)}) = SumFunctionOnSet(g, T \ {Taken(T)})
    BY <1>2, <2>2
  <2>4. f[Taken(T)] = g[Taken(T)]
    BY <2>2
  <2> QED BY <2>2, <2>3, <2>4
<1> HIDE DEF G
<1>3. S \in G
  BY <1>1, <1>2, SubsetInduction
<1> QED BY <1>3 DEF G

(* What a step does to a sum: T \ {x} is a smaller set and x one more.     *)
LEMMA SumStep ==
  ASSUME NEW S, IsFiniteSet(S), NEW T \in SUBSET S, NEW f, \A x \in S : f[x] \in Int, NEW x \in T
  PROVE  /\ SumFunctionOnSet(f, T) = f[x] + SumFunctionOnSet(f, T \ {x})
         /\ f[x] \in Int /\ SumFunctionOnSet(f, T \ {x}) \in Int
<1>1. IsFiniteSet(T) /\ IsFiniteSet(T \ {x}) /\ \A y \in T : f[y] \in Int
  BY FS_Subset
<1>2. SumFunctionOnSet(f, T) = f[x] + SumFunctionOnSet(f, T \ {x})
  BY <1>1, SumOut
<1>3. SumFunctionOnSet(f, T \ {x}) \in Int
  BY <1>1, SumInt
<1> QED BY <1>1, <1>2, <1>3

LEMMA SumPlus ==
  ASSUME NEW S, IsFiniteSet(S), NEW f, NEW g, NEW h,
         \A x \in S : f[x] \in Int /\ g[x] \in Int /\ h[x] = f[x] + g[x]
  PROVE  SumFunctionOnSet(h, S) = SumFunctionOnSet(f, S) + SumFunctionOnSet(g, S)
<1> DEFINE G == {T \in SUBSET S :
             SumFunctionOnSet(h, T) = SumFunctionOnSet(f, T) + SumFunctionOnSet(g, T)}
<1>1. {} \in G
  BY SumEmpty
<1>2. ASSUME NEW T \in SUBSET S, T # {}, \A x \in T : T \ {x} \in G
      PROVE  T \in G
  <2>1. PICK x \in T : TRUE
    BY <1>2
  <2> DEFINE R == T \ {x}
  <2>2. SumFunctionOnSet(h, R) = SumFunctionOnSet(f, R) + SumFunctionOnSet(g, R)
    BY <1>2
  <2>3. \A y \in S : f[y] \in Int /\ g[y] \in Int /\ h[y] \in Int
    OBVIOUS
  <2>4. /\ SumFunctionOnSet(f, T) = f[x] + SumFunctionOnSet(f, R)
        /\ f[x] \in Int /\ SumFunctionOnSet(f, R) \in Int
    BY <2>3, SumStep
  <2>5. /\ SumFunctionOnSet(g, T) = g[x] + SumFunctionOnSet(g, R)
        /\ g[x] \in Int /\ SumFunctionOnSet(g, R) \in Int
    BY <2>3, SumStep
  <2>6. /\ SumFunctionOnSet(h, T) = h[x] + SumFunctionOnSet(h, R)
        /\ h[x] \in Int /\ SumFunctionOnSet(h, R) \in Int
    BY <2>3, SumStep
  <2>7. h[x] = f[x] + g[x]
    OBVIOUS
  <2> HIDE DEF R
  <2> QED BY <2>2, <2>4, <2>5, <2>6, <2>7
<1> HIDE DEF G
<1>3. S \in G
  BY <1>1, <1>2, SubsetInduction
<1> QED BY <1>3 DEF G

LEMMA SumTimes ==
  ASSUME NEW S, IsFiniteSet(S), NEW k \in Int, NEW f, NEW g,
         \A x \in S : f[x] \in Int /\ g[x] = f[x] * k
  PROVE  SumFunctionOnSet(g, S) = SumFunctionOnSet(f, S) * k
<1> DEFINE G == {T \in SUBSET S : SumFunctionOnSet(g, T) = SumFunctionOnSet(f, T) * k}
<1>1. {} \in G
  BY SumEmpty
<1>2. ASSUME NEW T \in SUBSET S, T # {}, \A x \in T : T \ {x} \in G
      PROVE  T \in G
  <2>1. PICK x \in T : TRUE
    BY <1>2
  <2> DEFINE R == T \ {x}
             a == f[x]
             b == SumFunctionOnSet(f, R)
  <2>2. SumFunctionOnSet(g, R) = b * k
    BY <1>2
  <2>3. \A y \in S : f[y] \in Int /\ g[y] \in Int
    OBVIOUS
  <2>4. SumFunctionOnSet(f, T) = a + b /\ a \in Int /\ b \in Int
    <3>1. /\ SumFunctionOnSet(f, T) = f[x] + SumFunctionOnSet(f, R)
          /\ f[x] \in Int /\ SumFunctionOnSet(f, R) \in Int
      BY <2>3, SumStep
    <3> QED BY <3>1
  <2>5. /\ SumFunctionOnSet(g, T) = g[x] + SumFunctionOnSet(g, R)
        /\ g[x] \in Int /\ SumFunctionOnSet(g, R) \in Int
    BY <2>3, SumStep
  <2>6. g[x] = a * k
    OBVIOUS
  <2> HIDE DEF a, b
  <2>7. (a + b) * k = a * k + b * k
    BY <2>4
  <2> QED BY <2>2, <2>4, <2>5, <2>6, <2>7
<1> HIDE DEF G
<1>3. S \in G
  BY <1>1, <1>2, SubsetInduction
<1> QED BY <1>3 DEF G

LEMMA SumConstant ==
  ASSUME NEW S, IsFiniteSet(S), NEW k \in Int, NEW f, \A x \in S : f[x] = k
  PROVE  SumFunctionOnSet(f, S) = Cardinality(S) * k
<1> DEFINE G == {T \in SUBSET S : SumFunctionOnSet(f, T) = Cardinality(T) * k}
<1>1. {} \in G
  BY SumEmpty, FS_EmptySet
<1>2. ASSUME NEW T \in SUBSET S, T # {}, \A x \in T : T \ {x} \in G
      PROVE  T \in G
  <2>1. PICK x \in T : TRUE
    BY <1>2
  <2> DEFINE c == Cardinality(T \ {x})
  <2>2. SumFunctionOnSet(f, T \ {x}) = c * k
    BY <1>2
  <2>3. SumFunctionOnSet(f, T) = k + SumFunctionOnSet(f, T \ {x})
    <3>1. /\ SumFunctionOnSet(f, T) = f[x] + SumFunctionOnSet(f, T \ {x})
          /\ f[x] \in Int /\ SumFunctionOnSet(f, T \ {x}) \in Int
      <4>1. \A y \in S : f[y] \in Int
        OBVIOUS
      <4> QED BY <4>1, SumStep
    <3> QED BY <3>1
  <2>4. IsFiniteSet(T) /\ IsFiniteSet(T \ {x})
    BY FS_Subset
  <2>5. Cardinality(T) = c + 1 /\ c \in Nat
    BY <2>4, FS_RemoveElement, FS_CardinalityType
  <2> HIDE DEF c
  <2>6. (c + 1) * k = k + c * k
    BY <2>5
  <2> QED BY <2>2, <2>3, <2>5, <2>6
<1> HIDE DEF G
<1>3. S \in G
  BY <1>1, <1>2, SubsetInduction
<1> QED BY <1>3 DEF G

LEMMA SumUnion ==
  ASSUME NEW S, IsFiniteSet(S), NEW A \in SUBSET S, NEW f, \A x \in S : f[x] \in Int
  PROVE  SumFunctionOnSet(f, S) = SumFunctionOnSet(f, A) + SumFunctionOnSet(f, S \ A)
<1> DEFINE g == [x \in S |-> IF x \in A THEN f[x] ELSE 0]
           h == [x \in S |-> IF x \in A THEN 0 ELSE f[x]]
           G == {T \in SUBSET A : SumFunctionOnSet(f, (S \ A) \cup T) =
                   SumFunctionOnSet(f, T) + SumFunctionOnSet(f, S \ A)}
<1>0. IsFiniteSet(A) /\ IsFiniteSet(S \ A)
  BY FS_Subset
<1>1. {} \in G
  <2>1. (S \ A) \cup {} = S \ A /\ SumFunctionOnSet(f, S \ A) \in Int
    BY <1>0, SumInt
  <2> QED BY <2>1, SumEmpty
<1>2. ASSUME NEW T \in SUBSET A, T # {}, \A x \in T : T \ {x} \in G
      PROVE  T \in G
  <2>1. PICK x \in T : TRUE
    BY <1>2
  <2> DEFINE R == T \ {x}
             U == (S \ A) \cup T
  <2>2. SumFunctionOnSet(f, (S \ A) \cup R) = SumFunctionOnSet(f, R) + SumFunctionOnSet(f, S \ A)
    BY <1>2
  <2>3. x \in U /\ U \in SUBSET S /\ U \ {x} = (S \ A) \cup R /\ T \in SUBSET S
    OBVIOUS
  <2>4. /\ SumFunctionOnSet(f, T) = f[x] + SumFunctionOnSet(f, R)
        /\ f[x] \in Int /\ SumFunctionOnSet(f, R) \in Int
    BY <2>3, SumStep
  <2>5. SumFunctionOnSet(f, U) = f[x] + SumFunctionOnSet(f, (S \ A) \cup R)
    <3>1. /\ SumFunctionOnSet(f, U) = f[x] + SumFunctionOnSet(f, U \ {x})
          /\ f[x] \in Int /\ SumFunctionOnSet(f, U \ {x}) \in Int
      <4> HIDE DEF R, U
      <4> QED BY <2>3, SumStep
    <3> QED BY <2>3, <3>1
  <2>6. SumFunctionOnSet(f, S \ A) \in Int
    BY <1>0, SumInt
  <2> HIDE DEF R
  <2> QED BY <2>2, <2>4, <2>5, <2>6
<1>3. A \in G
  <2> HIDE DEF G
  <2> QED BY <1>0, <1>1, <1>2, SubsetInduction
<1>4. (S \ A) \cup A = S
  OBVIOUS
<1> QED BY <1>3, <1>4

(* Terms that are 0 may be left out.                                       *)
LEMMA SumOfZeros ==
  ASSUME NEW S, IsFiniteSet(S), NEW f, \A x \in S : f[x] = 0
  PROVE  SumFunctionOnSet(f, S) = 0
<1>1. SumFunctionOnSet(f, S) = Cardinality(S) * 0 /\ Cardinality(S) \in Nat
  BY SumConstant, FS_CardinalityType
<1> QED BY <1>1

LEMMA SumWhere ==
  ASSUME NEW S, IsFiniteSet(S), NEW A \in SUBSET S, NEW f, \A x \in S : f[x] \in Int,
         \A x \in S \ A : f[x] = 0
  PROVE  SumFunctionOnSet(f, S) = SumFunctionOnSet(f, A)
<1>1. IsFiniteSet(A) /\ IsFiniteSet(S \ A)
  BY FS_Subset
<1>2. SumFunctionOnSet(f, S \ A) = 0
  BY <1>1, SumOfZeros
<1>3. SumFunctionOnSet(f, S) = SumFunctionOnSet(f, A) + SumFunctionOnSet(f, S \ A)
  BY SumUnion
<1>4. SumFunctionOnSet(f, A) \in Int
  BY <1>1, SumInt
<1> QED BY <1>2, <1>3, <1>4

LEMMA SumMinus ==
  ASSUME NEW S, IsFiniteSet(S), NEW f, NEW g, NEW h,
         \A x \in S : f[x] \in Int /\ g[x] \in Int /\ h[x] = f[x] - g[x]
  PROVE  SumFunctionOnSet(h, S) = SumFunctionOnSet(f, S) - SumFunctionOnSet(g, S)
<1>1. \A x \in S : h[x] \in Int /\ g[x] \in Int /\ f[x] = h[x] + g[x]
  OBVIOUS
<1>2. SumFunctionOnSet(f, S) = SumFunctionOnSet(h, S) + SumFunctionOnSet(g, S)
  BY <1>1, SumPlus
<1>3. SumFunctionOnSet(h, S) \in Int /\ SumFunctionOnSet(g, S) \in Int
  BY <1>1, SumInt
<1> QED BY <1>2, <1>3

(* Greater terms have a greater sum.                                       *)
LEMMA SumAtMost ==
  ASSUME NEW S, IsFiniteSet(S), NEW f, NEW g,
         \A x \in S : f[x] \in Int /\ g[x] \in Int /\ f[x] <= g[x]
  PROVE  SumFunctionOnSet(f, S) <= SumFunctionOnSet(g, S)
<1> DEFINE G == {T \in SUBSET S : SumFunctionOnSet(f, T) <= SumFunctionOnSet(g, T)}
<1>1. {} \in G
  BY SumEmpty
<1>2. ASSUME NEW T \in SUBSET S, T # {}, \A x \in T : T \ {x} \in G
      PROVE  T \in G
  <2>1. PICK x \in T : TRUE
    BY <1>2
  <2> DEFINE f1 == SumFunctionOnSet(f, T \ {x})
             g1 == SumFunctionOnSet(g, T \ {x})
  <2>2. SumFunctionOnSet(f, T) = f[x] + f1 /\ f[x] \in Int /\ f1 \in Int
    BY SumStep
  <2>3. SumFunctionOnSet(g, T) = g[x] + g1 /\ g[x] \in Int /\ g1 \in Int
    BY SumStep
  <2>4. f1 <= g1 /\ f[x] <= g[x]
    BY <1>2
  <2> HIDE DEF f1, g1
  <2>5. SumFunctionOnSet(f, T) <= SumFunctionOnSet(g, T)
    BY <2>2, <2>3, <2>4
  <2> QED BY <2>5
<1> HIDE DEF G
<1>3. S \in G
  BY <1>1, <1>2, SubsetInduction
<1> QED BY <1>3 DEF G

(* A sum with one term that is not zero.                                   *)
LEMMA SumOne ==
  ASSUME NEW S, IsFiniteSet(S), NEW a \in S, NEW f, f[a] \in Int, \A x \in S \ {a} : f[x] = 0
  PROVE  SumFunctionOnSet(f, S) = f[a]
<1>1. \A x \in S : f[x] \in Int
  OBVIOUS
<1>2. SumFunctionOnSet(f, S) = f[a] + SumFunctionOnSet(f, S \ {a})
  BY <1>1, SumOut
<1>3. IsFiniteSet(S \ {a})
  BY FS_RemoveElement
<1>4. SumFunctionOnSet(f, S \ {a}) = 0
  BY <1>3, SumOfZeros
<1> QED BY <1>2, <1>4

(* One term takes another value.                                           *)
LEMMA SumChange ==
  ASSUME NEW S, IsFiniteSet(S), NEW a \in S, NEW f, NEW g,
         \A x \in S : f[x] \in Int /\ g[x] \in Int,
         \A x \in S \ {a} : g[x] = f[x]
  PROVE  SumFunctionOnSet(g, S) = SumFunctionOnSet(f, S) - f[a] + g[a]
<1> DEFINE R == S \ {a}
<1>1. IsFiniteSet(R)
  BY FS_RemoveElement
<1>2. SumFunctionOnSet(f, S) = f[a] + SumFunctionOnSet(f, R)
  BY SumOut
<1>3. SumFunctionOnSet(g, S) = g[a] + SumFunctionOnSet(g, R)
  BY SumOut
<1>4. SumFunctionOnSet(g, R) = SumFunctionOnSet(f, R)
  <2>1. \A x \in R : g[x] = f[x]
    OBVIOUS
  <2> HIDE DEF R
  <2> QED BY <1>1, <2>1, SumSame
<1>5. SumFunctionOnSet(f, R) \in Int
  <2>1. \A x \in R : f[x] \in Int
    OBVIOUS
  <2> HIDE DEF R
  <2> QED BY <1>1, <2>1, SumInt
<1> HIDE DEF R
<1> QED BY <1>2, <1>3, <1>4, <1>5

LEMMA SumNat ==
  ASSUME NEW S, IsFiniteSet(S), NEW f, \A x \in S : f[x] \in Nat
  PROVE  SumFunctionOnSet(f, S) \in Nat
<1> DEFINE none == [x \in S |-> 0]
<1>1. \A x \in S : none[x] = 0 /\ none[x] \in Int /\ f[x] \in Int /\ none[x] <= f[x]
  OBVIOUS
<1> HIDE DEF none
<1>2. SumFunctionOnSet(none, S) = 0
  BY <1>1, SumOfZeros
<1>3. SumFunctionOnSet(none, S) <= SumFunctionOnSet(f, S)
  BY <1>1, SumAtMost
<1>4. SumFunctionOnSet(f, S) \in Int
  BY <1>1, SumInt
<1> QED BY <1>2, <1>3, <1>4

(* A table may be added up by rows or by columns.                          *)
Table(F, S, T) == \A x \in S, y \in T : F[x][y] \in Int
Transposed(F, G, S, T) == \A x \in S, y \in T : G[y][x] = F[x][y]
RowSums(rows, F, S, T) == \A x \in S : rows[x] = SumFunctionOnSet(F[x], T)

LEMMA SumSwap ==
  ASSUME NEW S, IsFiniteSet(S), NEW T, IsFiniteSet(T),
         NEW F, Table(F, S, T), NEW G, Transposed(F, G, S, T),
         NEW rows, RowSums(rows, F, S, T), NEW cols, RowSums(cols, G, T, S)
  PROVE  SumFunctionOnSet(rows, S) = SumFunctionOnSet(cols, T)
<1> USE DEF Table, Transposed, RowSums
<1> DEFINE Part(U) == [y \in T |-> SumFunctionOnSet(G[y], U)]
           Good == {U \in SUBSET S : SumFunctionOnSet(rows, U) = SumFunctionOnSet(Part(U), T)}
<1>1. {} \in Good
  <2>1. \A y \in T : Part({})[y] = 0
    BY SumEmpty
  <2> HIDE DEF Part
  <2>2. SumFunctionOnSet(Part({}), T) = 0
    BY <2>1, SumOfZeros
  <2> QED BY <2>2, SumEmpty
<1>2. ASSUME NEW U \in SUBSET S, U # {}, \A x \in U : U \ {x} \in Good
      PROVE  U \in Good
  <2>1. PICK x \in U : TRUE
    BY <1>2
  <2> DEFINE R == U \ {x}
  <2>2. SumFunctionOnSet(rows, R) = SumFunctionOnSet(Part(R), T)
    BY <1>2
  <2>3. \A z \in S : rows[z] \in Int
    <3> SUFFICES ASSUME NEW z \in S PROVE rows[z] \in Int
      OBVIOUS
    <3>1. \A y \in T : F[z][y] \in Int
      OBVIOUS
    <3> QED BY <3>1, SumInt
  <2>4. /\ SumFunctionOnSet(rows, U) = rows[x] + SumFunctionOnSet(rows, R)
        /\ rows[x] \in Int /\ SumFunctionOnSet(rows, R) \in Int
    BY <2>3, SumStep
  <2>5. ASSUME NEW y \in T
        PROVE  /\ F[x][y] \in Int /\ Part(R)[y] \in Int
               /\ Part(U)[y] = F[x][y] + Part(R)[y]
    <3>1. \A z \in S : G[y][z] \in Int
      OBVIOUS
    <3>2. /\ SumFunctionOnSet(G[y], U) = G[y][x] + SumFunctionOnSet(G[y], R)
          /\ G[y][x] \in Int /\ SumFunctionOnSet(G[y], R) \in Int
      BY <3>1, SumStep
    <3> QED BY <3>2
  <2> HIDE DEF Part, R
  <2>6. SumFunctionOnSet(Part(U), T) = SumFunctionOnSet(F[x], T) + SumFunctionOnSet(Part(R), T)
    BY <2>5, SumPlus
  <2>7. rows[x] = SumFunctionOnSet(F[x], T)
    OBVIOUS
  <2> QED BY <2>2, <2>4, <2>6, <2>7
<1>3. SumFunctionOnSet(rows, S) = SumFunctionOnSet(Part(S), T)
  <2> HIDE DEF Part
  <2> DEFINE H == Good
  <2> HIDE DEF H
  <2>1. S \in H
    <3>1. {} \in H
      BY <1>1 DEF H
    <3>2. \A U \in SUBSET S : U # {} /\ (\A x \in U : U \ {x} \in H) => U \in H
      BY <1>2 DEF H
    <3> QED BY <3>1, <3>2, SubsetInduction
  <2> QED BY <2>1 DEF H
<1>4. \A y \in T : Part(S)[y] = cols[y]
  OBVIOUS
<1>5. SumFunctionOnSet(Part(S), T) = SumFunctionOnSet(cols, T)
  <2> HIDE DEF Part
  <2> QED BY <1>4, SumSame
<1> QED BY <1>3, <1>5

(* Induction over the natural numbers, for a set.                          *)
LEMMA NatSetInduction ==
  ASSUME NEW G, 0 \in G, \A k \in Nat : k \in G => k + 1 \in G, NEW n \in Nat
  PROVE  n \in G
<1> DEFINE S == 1..n
           H == {T \in SUBSET S : Cardinality(T) \in G}
<1>1. IsFiniteSet(S) /\ Cardinality(S) = n
  BY FS_Interval
<1>2. {} \in H
  BY FS_EmptySet
<1>3. ASSUME NEW T \in SUBSET S, T # {}, \A x \in T : T \ {x} \in H PROVE T \in H
  <2>1. PICK x \in T : TRUE
    BY <1>3
  <2>2. Cardinality(T \ {x}) \in G
    BY <1>3
  <2>3. IsFiniteSet(T)
    BY <1>1, FS_Subset
  <2>4. Cardinality(T \ {x}) = Cardinality(T) - 1 /\ Cardinality(T) \in Nat
        /\ Cardinality(T \ {x}) \in Nat
    BY <2>1, <2>3, FS_RemoveElement, FS_CardinalityType
  <2> DEFINE a == Cardinality(T)
             b == Cardinality(T \ {x})
  <2> HIDE DEF a, b
  <2>5. a = b + 1
    BY <2>4 DEF a, b
  <2>6. b \in Nat /\ b \in G
    BY <2>2, <2>4 DEF b
  <2>7. a \in G
    BY <2>5, <2>6
  <2> QED BY <2>7 DEF a
<1>4. S \in H
  <2> HIDE DEF S, H
  <2> QED BY <1>1, <1>2, <1>3, SubsetInduction
<1> QED BY <1>1, <1>4

(* A finite set of integers that is not empty has a greatest one.          *)
LEMMA GreatestExists ==
  ASSUME NEW S \in SUBSET Int, IsFiniteSet(S), S # {}
  PROVE  \E x \in S : \A y \in S : x >= y
<1> DEFINE G == {T \in SUBSET S : T # {} => \E x \in T : \A y \in T : x >= y}
<1>1. {} \in G
  OBVIOUS
<1>2. ASSUME NEW T \in SUBSET S, T # {}, \A x \in T : T \ {x} \in G PROVE T \in G
  <2>1. PICK x \in T : TRUE
    BY <1>2
  <2>2. T \ {x} \in G
    BY <1>2
  <2>3. CASE T = {x}
    BY <2>3
  <2>4. CASE T # {x}
    <3>1. PICK z \in T \ {x} : \A y \in T \ {x} : z >= y
      BY <2>1, <2>2, <2>4
    <3>2. CASE x >= z
      <4>1. \A y \in T : x >= y
        BY <3>1, <3>2
      <4> QED BY <4>1
    <3>3. CASE ~(x >= z)
      <4>1. \A y \in T : z >= y
        BY <3>1, <3>3
      <4> QED BY <4>1
    <3> QED BY <3>2, <3>3
  <2> QED BY <2>3, <2>4
<1>3. S \in G
  <2> HIDE DEF G
  <2> QED BY <1>1, <1>2, SubsetInduction
<1> QED BY <1>3

(* What does not fall from one number to the next does not fall at all.    *)
LEMMA Ascending ==
  ASSUME NEW n \in Nat, NEW D, \A k \in 1..n : D[k] \in Int,
         \A k \in 1..n : k + 1 <= n => D[k] <= D[k + 1],
         NEW j \in 1..n, NEW k \in 1..n, j <= k
  PROVE  D[j] <= D[k]
<1> DEFINE G == {i \in Nat : j + i <= n => D[j] <= D[j + i]}
<1>1. 0 \in G
  <2>1. j + 0 = j /\ D[j] \in Int
    OBVIOUS
  <2>2. D[j] <= D[j + 0]
    BY <2>1
  <2> QED BY <2>2
<1>2. ASSUME NEW i \in Nat, i \in G PROVE i + 1 \in G
  <2> SUFFICES ASSUME j + (i + 1) <= n PROVE D[j] <= D[j + (i + 1)]
    OBVIOUS
  <2> DEFINE y == j + i
  <2>1. y \in 1..n /\ y + 1 \in 1..n /\ y <= n /\ j + (i + 1) = y + 1
    OBVIOUS
  <2>2. D[j] <= D[y]
    BY <1>2, <2>1
  <2> HIDE DEF y
  <2>3. D[j] \in Int /\ D[y] \in Int /\ D[y + 1] \in Int /\ D[y] <= D[y + 1]
    BY <2>1
  <2>4. D[j] <= D[y + 1]
    BY <2>2, <2>3
  <2> QED BY <2>1, <2>4
<1>3. k - j \in Nat /\ j + (k - j) = k
  OBVIOUS
<1>4. k - j \in G
  <2> HIDE DEF G
  <2> QED BY <1>1, <1>2, <1>3, NatSetInduction
<1> QED BY <1>3, <1>4

(* The sums over periods that follow each other make up that of the whole: *)
(* period k is from D[k] to the day before D[k + 1].                       *)
FollowUp(D, n) ==
  /\ D[1] = 1 /\ \A k \in 1..(n + 1) : D[k] \in Int
  /\ \A k \in 1..n : D[k] <= D[k + 1]
PeriodSums(g, f, D, n) == \A k \in 1..n : g[k] = SumFunctionOnSet(f, D[k]..(D[k + 1] - 1))

LEMMA SumPeriods ==
  ASSUME NEW n \in Nat, NEW D, FollowUp(D, n),
         NEW f, \A d \in 1..(D[n + 1] - 1) : f[d] \in Int, NEW g, PeriodSums(g, f, D, n)
  PROVE  SumFunctionOnSet(g, 1..n) = SumFunctionOnSet(f, 1..(D[n + 1] - 1))
<1> USE DEF FollowUp, PeriodSums
<1> DEFINE To(k) == 1..(D[k] - 1)
           Of(k) == D[k]..(D[k + 1] - 1)
           Split(k) == k <= n => SumFunctionOnSet(g, 1..k) = SumFunctionOnSet(f, To(k + 1))
           G == {k \in Nat : Split(k)}
<1>1. ASSUME NEW k \in 1..(n + 1) PROVE D[k] \in Int /\ 1 <= D[k] /\ D[k] <= D[n + 1]
  <2>1. n + 1 \in Nat /\ 1 \in 1..(n + 1) /\ n + 1 \in 1..(n + 1) /\ 1 <= k /\ k <= n + 1
    OBVIOUS
  <2>2. \A j \in 1..(n + 1) : j + 1 <= n + 1 => D[j] <= D[j + 1]
    OBVIOUS
  <2> DEFINE m == n + 1
  <2> HIDE DEF m
  <2>3. /\ m \in Nat /\ 1 \in 1..m /\ m \in 1..m /\ k \in 1..m /\ 1 <= k /\ k <= m
        /\ (\A j \in 1..m : D[j] \in Int)
        /\ \A j \in 1..m : j + 1 <= m => D[j] <= D[j + 1]
    BY <2>1, <2>2 DEF m
  <2>4. D[1] <= D[k] /\ D[k] <= D[m]
    BY <2>3, Ascending
  <2> QED BY <2>4 DEF m
<1>2. ASSUME NEW k \in 1..n
      PROVE  /\ IsFiniteSet(To(k)) /\ IsFiniteSet(Of(k)) /\ IsFiniteSet(To(k + 1))
             /\ To(k) \in SUBSET To(k + 1) /\ To(k + 1) \ To(k) = Of(k)
             /\ \A d \in To(k + 1) : f[d] \in Int
  <2>1. /\ D[k] \in Int /\ 1 <= D[k] /\ D[k + 1] \in Int /\ D[k + 1] <= D[n + 1] /\ D[n + 1] \in Int
        /\ D[k] <= D[k + 1]
    BY <1>1
  <2> DEFINE a == D[k]
             b == D[k + 1]
             c == D[n + 1]
  <2> HIDE DEF a, b, c
  <2>2. a \in Int /\ 1 <= a /\ b \in Int /\ a <= b /\ b <= c /\ c \in Int
    BY <2>1 DEF a, b, c
  <2>3. a - 1 \in Int /\ b - 1 \in Int
    BY <2>2
  <2>4. IsFiniteSet(1..(a - 1)) /\ IsFiniteSet(a..(b - 1)) /\ IsFiniteSet(1..(b - 1))
    BY <2>2, <2>3, FS_Interval
  <2>5. 1..(a - 1) \in SUBSET (1..(b - 1)) /\ (1..(b - 1)) \ (1..(a - 1)) = a..(b - 1)
    BY <2>2
  <2>6. \A d \in 1..(b - 1) : d \in 1..(c - 1)
    BY <2>2
  <2> QED BY <2>4, <2>5, <2>6 DEF a, b, c
<1>3. ASSUME NEW k \in 1..n
      PROVE  /\ SumFunctionOnSet(f, To(k + 1)) = SumFunctionOnSet(f, To(k)) + g[k]
             /\ g[k] \in Int /\ SumFunctionOnSet(f, To(k)) \in Int
  <2>1. (\A d \in To(k) : f[d] \in Int) /\ (\A d \in Of(k) : f[d] \in Int)
    BY <1>2
  <2>2. g[k] = SumFunctionOnSet(f, Of(k))
    OBVIOUS
  <2> HIDE DEF To, Of
  <2>3. SumFunctionOnSet(f, To(k)) \in Int /\ SumFunctionOnSet(f, Of(k)) \in Int
    BY <1>2, <2>1, SumInt
  <2>4. SumFunctionOnSet(f, To(k + 1))
          = SumFunctionOnSet(f, To(k)) + SumFunctionOnSet(f, To(k + 1) \ To(k))
    BY <1>2, SumUnion
  <2> QED BY <1>2, <2>2, <2>3, <2>4
<1>4. 0 \in G
  <2>1. To(0 + 1) = {} /\ 1..0 = {}
    OBVIOUS
  <2> HIDE DEF To
  <2>2. SumFunctionOnSet(g, 1..0) = 0 /\ SumFunctionOnSet(f, To(0 + 1)) = 0
    BY <2>1, SumEmpty
  <2>3. Split(0)
    BY <2>2
  <2> HIDE DEF Split
  <2> QED BY <2>3
<1>5. ASSUME NEW k \in Nat, k \in G PROVE k + 1 \in G
  <2> HIDE DEF To
  <2> SUFFICES ASSUME k + 1 <= n
               PROVE  SumFunctionOnSet(g, 1..(k + 1)) = SumFunctionOnSet(f, To(k + 1 + 1))
    OBVIOUS
  <2>1. k + 1 \in 1..n /\ 1..(k + 1) = (1..k) \cup {k + 1} /\ k + 1 \notin 1..k
        /\ \A x \in 1..k : x \in 1..n
    OBVIOUS
  <2>2. SumFunctionOnSet(g, 1..k) = SumFunctionOnSet(f, To(k + 1))
    BY <1>5
  <2>3. SumFunctionOnSet(g, (1..k) \cup {k + 1}) = g[k + 1] + SumFunctionOnSet(g, 1..k)
    <3>1. IsFiniteSet(1..k)
      BY FS_Interval
    <3>2. (\A x \in 1..k : g[x] \in Int) /\ g[k + 1] \in Int
      BY <1>3, <2>1
    <3> QED BY <2>1, <3>1, <3>2, SumIn
  <2>4. /\ SumFunctionOnSet(f, To(k + 1 + 1)) = SumFunctionOnSet(f, To(k + 1)) + g[k + 1]
        /\ g[k + 1] \in Int /\ SumFunctionOnSet(f, To(k + 1)) \in Int
    BY <1>3, <2>1
  <2>5. SumFunctionOnSet(g, 1..(k + 1)) = g[k + 1] + SumFunctionOnSet(g, 1..k)
    BY <2>1, <2>3
  <2> DEFINE whole == SumFunctionOnSet(g, 1..(k + 1))
             both == SumFunctionOnSet(f, To(k + 1 + 1))
             old == SumFunctionOnSet(f, To(k + 1))
             x == g[k + 1]
  <2>6. whole = x + old /\ both = old + x /\ x \in Int /\ old \in Int
    BY <2>2, <2>4, <2>5
  <2> HIDE DEF whole, both, old, x
  <2>7. whole = both
    BY <2>6
  <2> QED BY <2>7 DEF whole, both
<1>6. n \in G
  <2> HIDE DEF G
  <2> QED BY <1>4, <1>5, NatSetInduction
<1> QED BY <1>6
===============================================================================
