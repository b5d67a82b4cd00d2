------------------------------ MODULE SumProofs ------------------------------
(***************************************************************************)
(* What the library's sum over a finite set does: it is nothing over the   *)
(* empty set, and any one element can be taken out of it.  The library     *)
(* defines it by recursion, so the facts are proved by induction on the    *)
(* number of elements: the numbers they hold up to are a set that has 0    *)
(* and every successor.                                                    *)
(***************************************************************************)
EXTENDS Integers, FiniteSets, FiniteSetsExt, FiniteSetTheorems, WellFoundedInduction, TLAPS

Total(g, S) == MapThenSumSet(LAMBDA x : g[x], S)

LEMMA Counting ==
  ASSUME NEW T, 0 \in T, \A n \in Nat : n \in T => n + 1 \in T
  PROVE  Nat \subseteq T
<1> SUFFICES ASSUME Nat \ T # {} PROVE FALSE
  OBVIOUS
<1> DEFINE R == {p \in Nat \X Nat : p[1] < p[2]}
<1>1. IsWellFoundedOn(R, Nat)
  BY NatLessThanWellFounded DEF OpToRel
<1>2. PICK n \in Nat \ T : \A m \in Nat \ T : <<m, n>> \notin R
  <2> HIDE DEF R
  <2> QED BY <1>1, WFMin
<1>3. n \in Nat /\ n # 0 /\ n \notin T
  OBVIOUS
<1>4. n - 1 \in Nat /\ <<n - 1, n>> \in R /\ (n - 1) + 1 = n
  BY <1>3
<1>5. n - 1 \in T
  BY <1>2, <1>4
<1> QED BY <1>3, <1>4, <1>5

OneOf(s) == CHOOSE x \in s : TRUE
IsSum(G, g, D) == G = [s \in D |-> IF s = {} THEN 0 ELSE g[OneOf(s)] + G[s \ {OneOf(s)}]]

LEMMA TotalIsTheChosen ==
  ASSUME NEW g, NEW S PROVE Total(g, S) = (CHOOSE G : IsSum(G, g, SUBSET S))[S]
BY DEF Total, MapThenSumSet, MapThenFoldSet, IsSum, OneOf

LEMMA OneOfThem == ASSUME NEW s, s # {} PROVE OneOf(s) \in s
BY DEF OneOf

(* The subsets of at most n elements. *)
UpTo(S, n) == {s \in SUBSET S : Cardinality(s) <= n}

LEMMA Levels ==
  ASSUME NEW S, IsFiniteSet(S)
  PROVE  /\ UpTo(S, 0) = {{}}
         /\ \A n \in Nat : UpTo(S, n) \subseteq UpTo(S, n + 1)
         /\ \A n \in Nat : \A s \in UpTo(S, n + 1) : \A x \in s : s \ {x} \in UpTo(S, n)
         /\ Cardinality(S) \in Nat /\ UpTo(S, Cardinality(S)) = SUBSET S
<1>1. \A s \in SUBSET S : /\ IsFiniteSet(s) /\ Cardinality(s) \in Nat
                          /\ Cardinality(s) <= Cardinality(S)
  BY FS_Subset, FS_CardinalityType
<1>2. Cardinality({}) = 0
  BY FS_EmptySet
<1>3. UpTo(S, 0) = {{}}
  <2>1. {} \in UpTo(S, 0)
    BY <1>2 DEF UpTo
  <2>2. ASSUME NEW s \in UpTo(S, 0), s # {} PROVE FALSE
    <3>1. s \in SUBSET S /\ Cardinality(s) <= 0
      BY <2>2 DEF UpTo
    <3>2. Cardinality(s) \in Nat /\ Cardinality(s) # 0
      BY <1>1, <2>2, <3>1, FS_EmptySet
    <3> QED BY <3>1, <3>2
  <2> QED BY <2>1, <2>2
<1>4. ASSUME NEW n \in Nat, NEW s \in UpTo(S, n + 1), NEW x \in s
      PROVE  s \ {x} \in UpTo(S, n)
  <2>1. s \in SUBSET S /\ Cardinality(s) <= n + 1
    BY DEF UpTo
  <2>2. /\ Cardinality(s) \in Nat
        /\ Cardinality(s \ {x}) = Cardinality(s) - 1
    BY <1>1, <2>1, FS_RemoveElement
  <2>3. Cardinality(s \ {x}) <= n
    BY <2>1, <2>2
  <2> QED BY <2>1, <2>3 DEF UpTo
<1>5. ASSUME NEW n \in Nat, NEW s \in UpTo(S, n) PROVE s \in UpTo(S, n + 1)
  BY <1>1 DEF UpTo
<1>6. Cardinality(S) \in Nat /\ UpTo(S, Cardinality(S)) = SUBSET S
  BY <1>1 DEF UpTo
<1> QED BY <1>3, <1>4, <1>5, <1>6

(* What holds of nothing, and of a set when of all sets of one fewer, holds *)
(* of every finite set.                                                    *)
LEMMA BySize ==
  ASSUME NEW S, IsFiniteSet(S), NEW X, {} \in X,
         \A s \in SUBSET S : s # {} /\ IsFiniteSet(s) /\ (\A x \in s : s \ {x} \in X) => s \in X
  PROVE  S \in X
<1> DEFINE T == {n \in Nat : UpTo(S, n) \subseteq X}
<1>1. 0 \in T
  BY Levels
<1>2. ASSUME NEW n \in Nat, n \in T PROVE n + 1 \in T
  <2> SUFFICES ASSUME NEW s \in UpTo(S, n + 1), s # {} PROVE s \in X
    BY <1>2
  <2>1. s \in SUBSET S /\ IsFiniteSet(s)
    BY FS_Subset DEF UpTo
  <2>2. \A x \in s : s \ {x} \in X
    BY <1>2, Levels
  <2> QED BY <2>1, <2>2
<1> HIDE DEF T
<1>3. Nat \subseteq T
  BY <1>1, <1>2, Counting
<1>4. Cardinality(S) \in Nat /\ S \in UpTo(S, Cardinality(S))
  BY Levels
<1> QED BY <1>3, <1>4 DEF T

LEMMA SumOfFew ==
  ASSUME NEW g, NEW S, IsFiniteSet(S)
  PROVE  \A n \in Nat : \E G : IsSum(G, g, UpTo(S, n))
<1> DEFINE T == {n \in Nat : \E G : IsSum(G, g, UpTo(S, n))}
<1>1. 0 \in T
  <2> DEFINE G == [s \in UpTo(S, 0) |-> 0]
  <2>1. IsSum(G, g, UpTo(S, 0))
    BY Levels DEF IsSum
  <2> QED BY <2>1
<1>2. ASSUME NEW n \in Nat, n \in T PROVE n + 1 \in T
  <2>1. PICK G : IsSum(G, g, UpTo(S, n))
    BY <1>2
  <2> DEFINE H == [s \in UpTo(S, n + 1) |-> IF s = {} THEN 0 ELSE g[OneOf(s)] + G[s \ {OneOf(s)}]]
  <2>2. ASSUME NEW s \in UpTo(S, n) PROVE H[s] = G[s]
    <3>1. s \in UpTo(S, n + 1)
      BY Levels
    <3> QED BY <2>1, <3>1 DEF IsSum
  <2>3. ASSUME NEW s \in UpTo(S, n + 1), s # {} PROVE s \ {OneOf(s)} \in UpTo(S, n)
    BY <2>3, Levels, OneOfThem
  <2>4. IsSum(H, g, UpTo(S, n + 1))
    <3>1. \A s \in UpTo(S, n + 1) : s # {} => H[s \ {OneOf(s)}] = G[s \ {OneOf(s)}]
      BY <2>2, <2>3
    <3>2. \A s \in UpTo(S, n + 1) :
            H[s] = IF s = {} THEN 0 ELSE g[OneOf(s)] + H[s \ {OneOf(s)}]
      BY <3>1
    <3>3. H = [s \in UpTo(S, n + 1) |-> H[s]]
      OBVIOUS
    <3> HIDE DEF H
    <3> QED BY <3>2, <3>3 DEF IsSum
  <2> HIDE DEF H
  <2> QED BY <2>4
<1> HIDE DEF T
<1>3. Nat \subseteq T
  BY <1>1, <1>2, Counting
<1> QED BY <1>3 DEF T

LEMMA SumExists ==
  ASSUME NEW g, NEW S, IsFiniteSet(S)
  PROVE  \E G : IsSum(G, g, SUBSET S)
<1>1. PICK G : IsSum(G, g, UpTo(S, Cardinality(S)))
  BY Levels, SumOfFew
<1>2. UpTo(S, Cardinality(S)) = SUBSET S
  BY Levels
<1>3. IsSum(G, g, SUBSET S)
  BY <1>1, <1>2 DEF IsSum
<1> QED BY <1>3

LEMMA SumsAgree ==
  ASSUME NEW g, NEW h, NEW R, NEW S, IsFiniteSet(R), S \subseteq R,
         \A x \in S : g[x] = h[x],
         NEW G, IsSum(G, g, SUBSET S), NEW H, IsSum(H, h, SUBSET R)
  PROVE  G[S] = H[S]
<1> DEFINE X == {s \in SUBSET S : G[s] = H[s]}
<1>1. \A s \in SUBSET S : /\ G[s] = IF s = {} THEN 0 ELSE g[OneOf(s)] + G[s \ {OneOf(s)}]
                          /\ H[s] = IF s = {} THEN 0 ELSE h[OneOf(s)] + H[s \ {OneOf(s)}]
  <2>1. \A s \in SUBSET S : s \in SUBSET R
    OBVIOUS
  <2> QED BY <2>1 DEF IsSum
<1>2. {} \in X
  BY <1>1
<1>3. ASSUME NEW s \in SUBSET S, s # {}, IsFiniteSet(s), \A x \in s : s \ {x} \in X PROVE s \in X
  <2>1. OneOf(s) \in s /\ OneOf(s) \in S
    BY <1>3, OneOfThem
  <2>2. G[s] = g[OneOf(s)] + G[s \ {OneOf(s)}] /\ H[s] = h[OneOf(s)] + H[s \ {OneOf(s)}]
    BY <1>1, <1>3
  <2>3. G[s \ {OneOf(s)}] = H[s \ {OneOf(s)}] /\ g[OneOf(s)] = h[OneOf(s)]
    BY <1>3, <2>1
  <2> QED BY <2>2, <2>3
<1>4. IsFiniteSet(S)
  BY FS_Subset
<1> HIDE DEF X
<1>5. S \in X
  BY <1>2, <1>3, <1>4, BySize
<1> QED BY <1>5 DEF X

LEMMA TotalIsASum ==
  ASSUME NEW g, NEW S, IsFiniteSet(S)
  PROVE  \E G : IsSum(G, g, SUBSET S) /\ Total(g, S) = G[S]
BY SumExists, TotalIsTheChosen

LEMMA TotalOfNone == ASSUME NEW g PROVE Total(g, {}) = 0
<1>1. PICK G : IsSum(G, g, SUBSET {}) /\ Total(g, {}) = G[{}]
  BY TotalIsASum, FS_EmptySet
<1>2. {} \in SUBSET {}
  OBVIOUS
<1> QED BY <1>1, <1>2 DEF IsSum

(* The sum depends on the elements alone.                                  *)
LEMMA TotalSame ==
  ASSUME NEW g, NEW h, NEW S, IsFiniteSet(S), \A x \in S : g[x] = h[x]
  PROVE  Total(g, S) = Total(h, S)
<1>1. PICK G : IsSum(G, g, SUBSET S) /\ Total(g, S) = G[S]
  BY TotalIsASum
<1>2. PICK H : IsSum(H, h, SUBSET S) /\ Total(h, S) = H[S]
  BY TotalIsASum
<1> QED BY <1>1, <1>2, SumsAgree

LEMMA TotalFromOne ==
  ASSUME NEW g, NEW S, IsFiniteSet(S), S # {}
  PROVE  Total(g, S) = g[OneOf(S)] + Total(g, S \ {OneOf(S)})
<1> DEFINE Q == S \ {OneOf(S)}
<1>1. PICK G : IsSum(G, g, SUBSET S) /\ Total(g, S) = G[S]
  BY TotalIsASum
<1>2. OneOf(S) \in S /\ IsFiniteSet(Q) /\ S \in SUBSET S /\ Q \subseteq S
  BY OneOfThem, FS_Subset
<1>3. G[S] = g[OneOf(S)] + G[Q]
  BY <1>1, <1>2 DEF IsSum
<1> HIDE DEF Q
<1>4. PICK H : IsSum(H, g, SUBSET Q) /\ Total(g, Q) = H[Q]
  BY <1>2, TotalIsASum
<1>5. H[Q] = G[Q]
  BY <1>1, <1>2, <1>4, SumsAgree
<1> QED BY <1>1, <1>3, <1>4, <1>5 DEF Q

LEMMA TotalIsInt ==
  ASSUME NEW g, NEW S, IsFiniteSet(S), \A x \in S : g[x] \in Int
  PROVE  Total(g, S) \in Int
<1> DEFINE X == {s \in SUBSET S : Total(g, s) \in Int}
<1>1. {} \in X
  BY TotalOfNone
<1>2. ASSUME NEW s \in SUBSET S, s # {}, IsFiniteSet(s), \A x \in s : s \ {x} \in X PROVE s \in X
  <2>1. OneOf(s) \in s /\ Total(g, s) = g[OneOf(s)] + Total(g, s \ {OneOf(s)})
    BY <1>2, OneOfThem, TotalFromOne
  <2>2. g[OneOf(s)] \in Int /\ Total(g, s \ {OneOf(s)}) \in Int
    BY <1>2, <2>1
  <2> QED BY <2>1, <2>2
<1> HIDE DEF X
<1>3. S \in X
  BY <1>1, <1>2, BySize
<1> QED BY <1>3 DEF X

LEMMA TotalIsNat ==
  ASSUME NEW g, NEW S, IsFiniteSet(S), \A x \in S : g[x] \in Nat
  PROVE  Total(g, S) \in Nat
<1> DEFINE X == {s \in SUBSET S : Total(g, s) \in Nat}
<1>1. {} \in X
  BY TotalOfNone
<1>2. ASSUME NEW s \in SUBSET S, s # {}, IsFiniteSet(s), \A x \in s : s \ {x} \in X PROVE s \in X
  <2>1. OneOf(s) \in s /\ Total(g, s) = g[OneOf(s)] + Total(g, s \ {OneOf(s)})
    BY <1>2, OneOfThem, TotalFromOne
  <2>2. g[OneOf(s)] \in Nat /\ Total(g, s \ {OneOf(s)}) \in Nat
    BY <1>2, <2>1
  <2> QED BY <2>1, <2>2
<1> HIDE DEF X
<1>3. S \in X
  BY <1>1, <1>2, BySize
<1> QED BY <1>3 DEF X

(* Any one element can be taken out of a sum over a finite set, whichever  *)
(* one the library's MapThenSumSet takes first: what Held, Beyond,         *)
(* hours_today and the prices of Pricing are computed with.                *)
THEOREM TotalFrom ==
  ASSUME NEW g, NEW S, IsFiniteSet(S), \A x \in S : g[x] \in Int, NEW a \in S
  PROVE  Total(g, S) = g[a] + Total(g, S \ {a})
<1> DEFINE X == {s \in SUBSET S : \A b \in s : Total(g, s) = g[b] + Total(g, s \ {b})}
<1>1. {} \in X
  OBVIOUS
<1>2. ASSUME NEW s \in SUBSET S, s # {}, IsFiniteSet(s), \A x \in s : s \ {x} \in X, NEW b \in s
      PROVE  Total(g, s) = g[b] + Total(g, s \ {b})
  <2> DEFINE c == OneOf(s)  q == s \ {c}  p == s \ {b}  r == s \ {b, c}
  <2>1. c \in s /\ IsFiniteSet(r)
    BY <1>2, OneOfThem, FS_Subset
  <2>2. Total(g, s) = g[c] + Total(g, q)
    BY <1>2, TotalFromOne
  <2>3. CASE b = c
    BY <2>2, <2>3
  <2>4. CASE b # c
    <3>1. Total(g, q) = g[b] + Total(g, r)
      <4>1. q \in X /\ b \in q /\ q \ {b} = r
        BY <1>2, <2>1, <2>4
      <4> QED BY <4>1
    <3>2. Total(g, p) = g[c] + Total(g, r)
      <4>1. p \in X /\ c \in p /\ p \ {c} = r
        BY <1>2, <2>1, <2>4
      <4> QED BY <4>1
    <3>3. g[b] \in Int /\ g[c] \in Int
      BY <2>1
    <3>4. Total(g, r) \in Int
      <4>1. \A x \in r : g[x] \in Int
        OBVIOUS
      <4> HIDE DEF r
      <4> QED BY <2>1, <4>1, TotalIsInt
    <3> HIDE DEF c, q, p, r
    <3> QED BY <2>2, <3>1, <3>2, <3>3, <3>4 DEF p
  <2> QED BY <2>3, <2>4
<1>3. ASSUME NEW s \in SUBSET S, s # {}, IsFiniteSet(s), \A x \in s : s \ {x} \in X PROVE s \in X
  BY <1>2, <1>3
<1> HIDE DEF X
<1>4. S \in X
  BY <1>1, <1>3, BySize
<1> QED BY <1>4 DEF X
=============================================================================
