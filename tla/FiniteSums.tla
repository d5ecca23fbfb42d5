------------------------------ MODULE FiniteSums -------------------------------
(***************************************************************************)
(* Facts about sums over finite sets, for the proofs about money.          *)
(*                                                                         *)
(* Sum(w, S) is the sum of the weights w[x] of the members x of S, taken   *)
(* in the order in which CHOOSE picks them, as the folds of the community  *)
(* modules take it.  The lemmas show that the order does not matter.  Each *)
(* is proved by looking at a smallest subset of S it would be false for.   *)
(***************************************************************************)
EXTENDS Integers, FiniteSetTheorems, FiniteSetsExt, TLAPS

\* The member of s that is taken first.
Chosen(s) == CHOOSE x \in s : TRUE

\* The sum over s, given the function g from smaller sets to their sums.
Recur(g, w, s) ==
  IF s = {} THEN 0 ELSE w[Chosen(s)] + g[s \ {Chosen(s)}]

\* g sums the weights w over each subset of S.
IsSum(g, w, S) == g = [s \in SUBSET S |-> Recur(g, w, s)]

\* The sum of the weights w over S.
Sum(w, S) == (CHOOSE g : IsSum(g, w, S))[S]

\* What is taken from a set is a member of it.
LEMMA ChosenIn == ASSUME NEW s, s # {} PROVE Chosen(s) \in s
BY DEF Chosen

\* A nonempty collection of subsets of a finite set has a minimal member.
LEMMA MinimalSet ==
  ASSUME NEW S, IsFiniteSet(S), NEW B \in SUBSET SUBSET S, B # {}
  PROVE  \E s \in B : \A u \in B : u \subseteq s => u = s
<1>1. IsWellFoundedOn(StrictSubsetOrdering(S), SUBSET S)
  BY FS_StrictSubsetOrderingWellFounded, FS_FiniteSubsetsOfFinite
<1>2. PICK s \in B : \A u \in B : ~ (<<u, s>> \in StrictSubsetOrdering(S))
  BY <1>1, WFMin
<1> QED
  BY <1>2 DEF StrictSubsetOrdering

\* Two functions that sum the same weights agree where both are defined.
LEMMA SumUnique ==
  ASSUME NEW S, IsFiniteSet(S), NEW T, NEW w, NEW g, NEW h,
         IsSum(g, w, S), IsSum(h, w, T), NEW u \in SUBSET S, u \in SUBSET T
  PROVE  g[u] = h[u]
<1> DEFINE B == {s \in SUBSET (S \cap T) : g[s] # h[s]}
<1> SUFFICES ASSUME B # {} PROVE FALSE
  OBVIOUS
<1>1. PICK s \in B : \A v \in B : v \subseteq s => v = s
  <2>1. IsFiniteSet(S \cap T)
    BY FS_Intersection
  <2>2. B \in SUBSET SUBSET (S \cap T)
    OBVIOUS
  <2> HIDE DEF B
  <2> QED BY <2>1, <2>2, MinimalSet
<1>2. g[s] = Recur(g, w, s) /\ h[s] = Recur(h, w, s)
  BY DEF IsSum
<1>3. s # {}
  BY <1>2 DEF Recur
<1>4. s \ {Chosen(s)} \in SUBSET (S \cap T) /\ s \ {Chosen(s)} # s
  BY <1>3, ChosenIn
<1>5. g[s \ {Chosen(s)}] = h[s \ {Chosen(s)}]
  BY <1>1, <1>4
<1> HIDE DEF B
<1>6. g[s] = h[s]
  BY <1>2, <1>3, <1>5 DEF Recur
<1> QED
  BY <1>6 DEF B

\* There is a function that sums over the subsets of a finite set.
LEMMA SumExists ==
  ASSUME NEW S, IsFiniteSet(S), NEW w
  PROVE  \E g : IsSum(g, w, S)
<1> DEFINE B == {s \in SUBSET S : ~ \E g : IsSum(g, w, s)}
<1> SUFFICES ASSUME B # {} PROVE FALSE
  OBVIOUS
<1>1. PICK s \in B : \A v \in B : v \subseteq s => v = s
  <2>1. B \in SUBSET SUBSET S
    OBVIOUS
  <2> HIDE DEF B
  <2> QED BY <2>1, MinimalSet
<1>2. \A u \in SUBSET s : IsFiniteSet(u)
  BY FS_Subset
<1> DEFINE Of(u) == CHOOSE g : IsSum(g, w, u)
<1>3. ASSUME NEW u \in SUBSET s, u # s
      PROVE  IsSum(Of(u), w, u)
  BY <1>1, <1>3
<1> DEFINE Val(u) == Of(u)[u]
<1> HIDE DEF Of, B
<1> DEFINE G == [u \in SUBSET s |->
             IF u # s THEN Val(u)
             ELSE IF s = {} THEN 0
             ELSE w[Chosen(s)] + Val(s \ {Chosen(s)})]
<1>4. ASSUME NEW u \in SUBSET s
      PROVE  G[u] = Recur(G, w, u)
  <2>1. CASE u = {}
    <3>1. CASE u = s
      BY <2>1, <3>1 DEF Recur
    <3>2. CASE u # s
      <4>1. Of(u)[u] = Recur(Of(u), w, u)
        BY <1>3, <3>2 DEF IsSum
      <4> QED BY <2>1, <3>2, <4>1 DEF Recur
    <3> QED BY <3>1, <3>2
  <2>2. CASE u # {}
    <3> DEFINE c == Chosen(u)
               v == u \ {c}
    <3>1. c \in u /\ v \in SUBSET s /\ v # s /\ v \in SUBSET u
      BY <2>2, ChosenIn
    <3>2. G[v] = Val(v)
      BY <3>1
    <3>3. CASE u = s
      BY <2>2, <3>1, <3>2, <3>3 DEF Recur
    <3>4. CASE u # s
      <4>1. Of(u)[u] = w[c] + Of(u)[v]
        BY <1>3, <3>4, <2>2 DEF IsSum, Recur
      <4>2. Of(u)[v] = Of(v)[v]
        BY <1>2, <1>3, <3>1, <3>4, SumUnique
      <4>3. G[u] = w[c] + G[v]
        BY <4>1, <4>2, <3>2, <3>4
      <4> QED BY <4>3, <2>2 DEF Recur
    <3> QED BY <3>3, <3>4
  <2> QED BY <2>1, <2>2
<1>5. IsSum(G, w, s)
  <2> HIDE DEF Val
  <2>1. G = [u \in SUBSET s |-> G[u]]
    OBVIOUS
  <2> HIDE DEF G
  <2> QED BY <1>4, <2>1 DEF IsSum
<1> QED
  BY <1>5 DEF B

\* Nothing sums to zero.
LEMMA SumEmpty == ASSUME NEW w PROVE Sum(w, {}) = 0
<1>1. PICK g : IsSum(g, w, {})
  BY SumExists, FS_EmptySet
<1>2. IsSum(CHOOSE h : IsSum(h, w, {}), w, {})
  BY <1>1
<1> QED
  BY <1>2 DEF IsSum, Sum, Recur

\* The sum over S is what any function that sums over a superset says.
LEMMA SumIs ==
  ASSUME NEW S, IsFiniteSet(S), NEW w, NEW g, NEW T, S \subseteq T, IsSum(g, w, T)
  PROVE  Sum(w, S) = g[S]
<1>1. PICK h : IsSum(h, w, S)
  BY SumExists
<1>2. IsSum(CHOOSE k : IsSum(k, w, S), w, S)
  BY <1>1
<1> QED
  BY <1>2, SumUnique DEF Sum

\* A sum is the weight of the chosen member and the sum of the others.
LEMMA SumStep ==
  ASSUME NEW S, IsFiniteSet(S), NEW w, S # {}
  PROVE  Sum(w, S) = w[Chosen(S)] + Sum(w, S \ {Chosen(S)})
<1>1. PICK g : IsSum(g, w, S)
  BY SumExists
<1>2. g[S] = w[Chosen(S)] + g[S \ {Chosen(S)}]
  BY <1>1 DEF IsSum, Recur
<1>3. IsFiniteSet(S \ {Chosen(S)})
  BY FS_RemoveElement
<1> QED
  BY <1>1, <1>2, <1>3, SumIs

\* A sum of integers is an integer.
LEMMA SumType ==
  ASSUME NEW S, IsFiniteSet(S), NEW w, \A x \in S : w[x] \in Int
  PROVE  Sum(w, S) \in Int
<1> DEFINE B == {s \in SUBSET S : Sum(w, s) \notin Int}
<1> SUFFICES ASSUME B # {} PROVE FALSE
  OBVIOUS
<1>1. PICK s \in B : \A v \in B : v \subseteq s => v = s
  <2>1. B \in SUBSET SUBSET S
    OBVIOUS
  <2> HIDE DEF B
  <2> QED BY <2>1, MinimalSet
<1>2. IsFiniteSet(s) /\ s \in SUBSET S /\ Sum(w, s) \notin Int
  BY FS_Subset
<1> DEFINE c == Chosen(s)
<1>3. s # {} /\ c \in s
  BY <1>2, SumEmpty, ChosenIn
<1>4. Sum(w, s \ {c}) \in Int
  BY <1>1, <1>3
<1> HIDE DEF B
<1>5. Sum(w, s) = w[c] + Sum(w, s \ {c})
  BY <1>2, <1>3, SumStep
<1> HIDE DEF c
<1>6. w[c] \in Int
  BY <1>2, <1>3
<1> QED
  BY <1>2, <1>4, <1>5, <1>6

\* Any member may be taken first.
LEMMA SumRemove ==
  ASSUME NEW S, IsFiniteSet(S), NEW w, \A x \in S : w[x] \in Int, NEW e \in S
  PROVE  Sum(w, S) = w[e] + Sum(w, S \ {e})
<1> DEFINE Fine(s, x) == Sum(w, s) = w[x] + Sum(w, s \ {x})
           B == {s \in SUBSET S : \E x \in s : ~ Fine(s, x)}
<1> SUFFICES ASSUME B # {} PROVE FALSE
  OBVIOUS
<1>1. PICK s \in B : \A v \in B : v \subseteq s => v = s
  <2>1. B \in SUBSET SUBSET S
    OBVIOUS
  <2> HIDE DEF B
  <2> QED BY <2>1, MinimalSet
<1>2. PICK x \in s : ~ Fine(s, x)
  OBVIOUS
<1> DEFINE c == Chosen(s)
<1>3. \A u \in SUBSET s : u # s => \A y \in u : Fine(u, y)
  BY <1>1
<1>4. s \in SUBSET S
  OBVIOUS
<1> HIDE DEF B
<1>5. \A u \in SUBSET s : IsFiniteSet(u) /\ Sum(w, u) \in Int
  BY <1>4, FS_Subset, SumType
<1>6. c \in s
  BY ChosenIn
<1>7. Fine(s, c)
  BY <1>5, SumStep
<1>8. c # x
  BY <1>2, <1>7
<1> HIDE DEF c
<1>9. Fine(s \ {c}, x) /\ Fine(s \ {x}, c)
  <2>1. s \ {c} # s /\ s \ {x} # s /\ x \in s \ {c} /\ c \in s \ {x}
    BY <1>6, <1>8
  <2> HIDE DEF Fine
  <2> QED BY <1>3, <2>1
<1>10. (s \ {c}) \ {x} = (s \ {x}) \ {c}
  OBVIOUS
<1>11. w[c] \in Int /\ w[x] \in Int
  BY <1>4, <1>6
<1> DEFINE rest == Sum(w, (s \ {x}) \ {c})
<1>12. /\ Sum(w, s) = w[c] + Sum(w, s \ {c})
       /\ Sum(w, s \ {c}) = w[x] + rest
       /\ Sum(w, s \ {x}) = w[c] + rest
       /\ Sum(w, s) # w[x] + Sum(w, s \ {x})
  BY <1>2, <1>7, <1>9, <1>10
<1>13. rest \in Int
  BY <1>5
<1> HIDE DEF rest
<1> QED
  BY <1>11, <1>12, <1>13

\* Adding a member adds its weight.
LEMMA SumInsert ==
  ASSUME NEW S, IsFiniteSet(S), NEW e, e \notin S, NEW w,
         \A x \in S \cup {e} : w[x] \in Int
  PROVE  Sum(w, S \cup {e}) = Sum(w, S) + w[e]
<1>1. IsFiniteSet(S \cup {e})
  BY FS_AddElement
<1>2. (S \cup {e}) \ {e} = S
  OBVIOUS
<1>3. Sum(w, S) \in Int
  BY SumType
<1> QED
  BY <1>1, <1>2, <1>3, SumRemove

\* Weights that are the same on S have the same sum.
LEMMA SumExt ==
  ASSUME NEW S, IsFiniteSet(S), NEW w, NEW v, \A x \in S : w[x] = v[x]
  PROVE  Sum(w, S) = Sum(v, S)
<1>1. PICK g : IsSum(g, w, S)
  BY SumExists
<1>2. \A s \in SUBSET S : Recur(g, w, s) = Recur(g, v, s)
  BY ChosenIn DEF Recur
<1>3. IsSum(g, v, S)
  BY <1>1, <1>2 DEF IsSum
<1> QED
  BY <1>1, <1>3, SumIs

\* Adding up two weights of each member adds up their sums.
LEMMA SumPlus ==
  ASSUME NEW S, IsFiniteSet(S), NEW w, NEW v, NEW z,
         \A x \in S : w[x] \in Int /\ v[x] \in Int /\ z[x] = w[x] + v[x]
  PROVE  Sum(z, S) = Sum(w, S) + Sum(v, S)
<1> DEFINE B == {s \in SUBSET S : Sum(z, s) # Sum(w, s) + Sum(v, s)}
<1> SUFFICES ASSUME B # {} PROVE FALSE
  OBVIOUS
<1>1. PICK s \in B : \A u \in B : u \subseteq s => u = s
  <2>1. B \in SUBSET SUBSET S
    OBVIOUS
  <2> HIDE DEF B
  <2> QED BY <2>1, MinimalSet
<1> DEFINE c == Chosen(s)
           u == s \ {c}
<1>2. s \in SUBSET S /\ Sum(z, s) # Sum(w, s) + Sum(v, s)
  OBVIOUS
<1>3. s # {}
  <2>1. Sum(z, {}) = 0 /\ Sum(w, {}) = 0 /\ Sum(v, {}) = 0
    BY SumEmpty
  <2>2. Sum(z, {}) = Sum(w, {}) + Sum(v, {})
    BY <2>1
  <2> QED BY <1>2, <2>2
<1>4. c \in s /\ u \in SUBSET S
  BY <1>2, <1>3, ChosenIn
<1>5. Sum(z, u) = Sum(w, u) + Sum(v, u)
  BY <1>1, <1>4
<1> HIDE DEF B
<1>6. IsFiniteSet(s) /\ IsFiniteSet(u)
  BY <1>2, <1>4, FS_Subset
<1>7. /\ Sum(z, s) = z[c] + Sum(z, u)
      /\ Sum(w, s) = w[c] + Sum(w, u)
      /\ Sum(v, s) = v[c] + Sum(v, u)
  BY <1>3, <1>6, SumStep
<1> HIDE DEF c, u
<1>8. Sum(w, u) \in Int /\ Sum(v, u) \in Int
  BY <1>4, <1>6, SumType
<1>9. w[c] \in Int /\ v[c] \in Int /\ z[c] = w[c] + v[c]
  BY <1>2, <1>4
<1> QED
  BY <1>2, <1>5, <1>7, <1>8, <1>9

\* Members of weight zero do not count.
LEMMA SumSupport ==
  ASSUME NEW S, IsFiniteSet(S), NEW T \in SUBSET S, NEW w,
         \A x \in T : w[x] \in Int, \A x \in S \ T : w[x] = 0
  PROVE  Sum(w, S) = Sum(w, T)
<1> DEFINE B == {s \in SUBSET S : T \subseteq s /\ Sum(w, s) # Sum(w, T)}
<1> SUFFICES ASSUME B # {} PROVE FALSE
  OBVIOUS
<1>1. PICK s \in B : \A u \in B : u \subseteq s => u = s
  <2>1. B \in SUBSET SUBSET S
    OBVIOUS
  <2> HIDE DEF B
  <2> QED BY <2>1, MinimalSet
<1>2. s \in SUBSET S /\ T \subseteq s /\ Sum(w, s) # Sum(w, T)
  OBVIOUS
<1>3. PICK e \in s : e \notin T
  BY <1>2
<1>4. Sum(w, s \ {e}) = Sum(w, T)
  BY <1>1, <1>3
<1> HIDE DEF B
<1>5. IsFiniteSet(s) /\ IsFiniteSet(T)
  BY <1>2, FS_Subset
<1>6. \A x \in s : w[x] \in Int
  BY <1>2
<1>7. Sum(w, s) = w[e] + Sum(w, s \ {e})
  BY <1>5, <1>6, SumRemove
<1>8. w[e] = 0 /\ Sum(w, T) \in Int
  BY <1>2, <1>3, <1>5, SumType
<1> QED
  BY <1>2, <1>4, <1>7, <1>8

\* The sum over two sets without a common element is the two sums together.
LEMMA SumUnion ==
  ASSUME NEW S, IsFiniteSet(S), NEW T, IsFiniteSet(T), S \cap T = {},
         NEW w, \A x \in S \cup T : w[x] \in Int
  PROVE  Sum(w, S \cup T) = Sum(w, S) + Sum(w, T)
<1> DEFINE U == S \cup T
           v == [x \in U |-> IF x \in S THEN w[x] ELSE 0]
           z == [x \in U |-> IF x \in T THEN w[x] ELSE 0]
<1>1. IsFiniteSet(U) /\ S \in SUBSET U /\ T \in SUBSET U
  BY FS_Union
<1>2. /\ \A x \in U : v[x] \in Int /\ z[x] \in Int /\ w[x] = v[x] + z[x]
      /\ \A x \in S : v[x] = w[x] /\ v[x] \in Int
      /\ \A x \in T : z[x] = w[x] /\ z[x] \in Int
      /\ \A x \in U \ S : v[x] = 0
      /\ \A x \in U \ T : z[x] = 0
  OBVIOUS
<1> HIDE DEF U, v, z
<1>3. Sum(w, U) = Sum(v, U) + Sum(z, U)
  BY <1>1, <1>2, SumPlus
<1>4. Sum(v, U) = Sum(v, S) /\ Sum(z, U) = Sum(z, T)
  BY <1>1, <1>2, SumSupport
<1>5. Sum(v, S) = Sum(w, S) /\ Sum(z, T) = Sum(w, T)
  BY <1>2, SumExt
<1> QED
  BY <1>3, <1>4, <1>5 DEF U

\* A sum of natural numbers is one.
LEMMA SumNonnegative ==
  ASSUME NEW S, IsFiniteSet(S), NEW w, \A x \in S : w[x] \in Nat
  PROVE  Sum(w, S) \in Nat
<1> DEFINE B == {s \in SUBSET S : Sum(w, s) \notin Nat}
<1> SUFFICES ASSUME B # {} PROVE FALSE
  OBVIOUS
<1>1. PICK s \in B : \A v \in B : v \subseteq s => v = s
  <2>1. B \in SUBSET SUBSET S
    OBVIOUS
  <2> HIDE DEF B
  <2> QED BY <2>1, MinimalSet
<1>2. IsFiniteSet(s) /\ s \in SUBSET S /\ Sum(w, s) \notin Nat
  BY FS_Subset
<1> DEFINE c == Chosen(s)
<1>3. s # {} /\ c \in s
  BY <1>2, SumEmpty, ChosenIn
<1>4. Sum(w, s \ {c}) \in Nat
  BY <1>1, <1>3
<1> HIDE DEF B
<1>5. Sum(w, s) = w[c] + Sum(w, s \ {c})
  BY <1>2, <1>3, SumStep
<1> HIDE DEF c
<1>6. w[c] \in Nat
  BY <1>2, <1>3
<1> QED
  BY <1>2, <1>4, <1>5, <1>6

===============================================================================
