------------------------------ MODULE SumLemmas ------------------------------
(***************************************************************************)
(* What the sums of the ledgers compute.  SumFunctionOnSet (Functions) is  *)
(* a fold over the subsets of its index set; the lemmas below show that    *)
(* the fold exists and give the laws by which a step changes a sum.  The   *)
(* induction is over a minimal counterexample: the finite subsets are      *)
(* well-founded by strict inclusion.                                       *)
(***************************************************************************)
EXTENDS Integers, FiniteSets, Functions, FiniteSetTheorems, TLAPS

\* A set of subsets of a finite set has a minimal element.
LEMMA MinimalSet ==
    ASSUME NEW S, IsFiniteSet(S), NEW T \in SUBSET SUBSET S, T # {}
    PROVE  \E s \in T : \A t \in T : t \subseteq s => t = s
<1>1. T \subseteq FiniteSubsetsOf(S)
  BY FS_Subset DEF FiniteSubsetsOf
<1>2. PICK s \in T : \A t \in T : <<t, s>> \notin StrictSubsetOrdering(S)
  BY <1>1, FS_StrictSubsetOrderingWellFounded, WFMin
<1>3. QED
  BY <1>2 DEF StrictSubsetOrdering

-----------------------------------------------------------------------------
(* The fold, and that it exists.                                           *)

Chosen(s) == CHOOSE x \in s : TRUE

Unfolds(f, S, it) ==
    it = [s \in SUBSET S |-> IF s = {} THEN 0 ELSE f[Chosen(s)] + it[s \ {Chosen(s)}]]

Folding(f, S) == CHOOSE it : Unfolds(f, S, it)

\* The community module's definition is this fold.
LEMMA SumIsFolding ==
    ASSUME NEW f, NEW S
    PROVE  SumFunctionOnSet(f, S) = Folding(f, S)[S]
BY DEF SumFunctionOnSet, FoldFunctionOnSet, MapThenFoldSet, Unfolds, Folding, Chosen

\* Two folds agree wherever both are defined.
LEMMA UnfoldsOnce ==
    ASSUME NEW f, NEW S, IsFiniteSet(S), NEW S1 \in SUBSET S, NEW S2 \in SUBSET S,
           NEW it1, Unfolds(f, S1, it1), NEW it2, Unfolds(f, S2, it2),
           NEW s \in SUBSET S1, s \in SUBSET S2
    PROVE  it1[s] = it2[s]
<1>. DEFINE Bad == {t \in SUBSET (S1 \cap S2) : it1[t] # it2[t]}
<1>1. SUFFICES ASSUME Bad # {} PROVE FALSE
  OBVIOUS
<1>2. PICK t \in Bad : \A r \in Bad : r \subseteq t => r = t
  <2>1. Bad \in SUBSET SUBSET S
    OBVIOUS
  <2>2. QED
    <3>. HIDE DEF Bad
    <3>. QED  BY <1>1, <2>1, MinimalSet
<1>3. CASE t = {}
  BY <1>2, <1>3 DEF Unfolds
<1>4. CASE t # {}
  <2>. DEFINE r == t \ {Chosen(t)}
  <2>1. Chosen(t) \in t
    BY <1>4 DEF Chosen
  <2>2. r \in SUBSET (S1 \cap S2) /\ r \subseteq t /\ r # t
    BY <1>2, <2>1
  <2>3. it1[r] = it2[r]
    BY <1>2, <2>2
  <2>4. it1[t] = f[Chosen(t)] + it1[r] /\ it2[t] = f[Chosen(t)] + it2[r]
    BY <1>2, <1>4 DEF Unfolds
  <2>5. QED
    BY <1>2, <2>3, <2>4
<1>5. QED
  BY <1>3, <1>4

\* On a finite set there is a fold.
LEMMA FoldingExists ==
    ASSUME NEW f, NEW S, IsFiniteSet(S)
    PROVE  Unfolds(f, S, Folding(f, S))
<1>. DEFINE Bad == {s \in SUBSET S : ~ \E it : Unfolds(f, s, it)}
<1>1. SUFFICES ASSUME Bad # {} PROVE FALSE
  <2>1. S \notin Bad => \E it : Unfolds(f, S, it)
    OBVIOUS
  <2>2. QED
    BY <2>1 DEF Folding
<1>2. PICK s \in Bad : \A r \in Bad : r \subseteq s => r = s
  <2>1. Bad \in SUBSET SUBSET S
    OBVIOUS
  <2>2. QED
    <3>. HIDE DEF Bad
    <3>. QED  BY <1>1, <2>1, MinimalSet
<1>. DEFINE Less == {t \in SUBSET s : t # s}
            part(t) == Folding(f, t)
            rest(t) == t \ {Chosen(t)}
            all == [t \in SUBSET s |->
                       IF t = {} THEN 0 ELSE f[Chosen(t)] + part(rest(t))[rest(t)]]
<1>3. \A t \in Less : Unfolds(f, t, part(t))
  BY <1>2 DEF Folding
<1>4. ASSUME NEW t \in SUBSET s, t # {}
      PROVE  part(rest(t))[rest(t)] = all[rest(t)]
  <2>1. Chosen(t) \in t
    BY <1>4 DEF Chosen
  <2>. DEFINE r == rest(t)
  <2>2. r \in Less /\ r \in SUBSET s /\ Unfolds(f, r, part(r))
    BY <1>3, <2>1
  <2>3. CASE r = {}
    BY <2>2, <2>3 DEF Unfolds
  <2>4. CASE r # {}
    <3>1. Chosen(r) \in r
      BY <2>4 DEF Chosen
    <3>2. rest(r) \in Less /\ rest(r) \in SUBSET r /\ Unfolds(f, rest(r), part(rest(r)))
      BY <1>3, <2>2, <3>1
    <3>3. part(r)[rest(r)] = part(rest(r))[rest(r)]
      <4>. HIDE DEF rest, part, r
      <4>1. r \in SUBSET S /\ rest(r) \in SUBSET S
        BY <1>2, <2>2, <3>2
      <4>2. QED
        BY <2>2, <3>2, <4>1, UnfoldsOnce
    <3>4. part(r)[r] = f[Chosen(r)] + part(r)[rest(r)]
      BY <2>2, <2>4 DEF Unfolds
    <3>5. all[r] = f[Chosen(r)] + part(rest(r))[rest(r)]
      BY <2>2, <2>4
    <3>6. QED
      BY <3>3, <3>4, <3>5
  <2>5. QED
    BY <2>3, <2>4
<1>5. Unfolds(f, s, all)
  BY <1>4 DEF Unfolds
<1>6. QED
  BY <1>2, <1>5
-----------------------------------------------------------------------------
(* The laws.                                                               *)

LEMMA SumEmpty ==
    ASSUME NEW f
    PROVE  SumFunctionOnSet(f, {}) = 0
<1>1. Unfolds(f, {}, Folding(f, {}))
  BY FoldingExists, FS_EmptySet
<1>2. QED
  BY <1>1, SumIsFolding DEF Unfolds

LEMMA SumStep ==
    ASSUME NEW f, NEW S, IsFiniteSet(S), S # {}
    PROVE  /\ Chosen(S) \in S
           /\ SumFunctionOnSet(f, S) = f[Chosen(S)] + SumFunctionOnSet(f, S \ {Chosen(S)})
<1>. DEFINE r == S \ {Chosen(S)}
<1>1. Chosen(S) \in S
  BY DEF Chosen
<1>2. IsFiniteSet(r)
  BY FS_RemoveElement
<1>3. Unfolds(f, S, Folding(f, S)) /\ Unfolds(f, r, Folding(f, r))
  BY <1>2, FoldingExists
<1>4. Folding(f, S)[r] = Folding(f, r)[r]
  <2>1. r \in SUBSET S /\ S \in SUBSET S /\ r \in SUBSET r
    OBVIOUS
  <2>2. QED
    <3>. HIDE DEF r
    <3>. QED  BY <1>3, <2>1, UnfoldsOnce
<1>5. Folding(f, S)[S] = f[Chosen(S)] + Folding(f, S)[r]
  BY <1>3 DEF Unfolds
<1>6. QED
  BY <1>1, <1>4, <1>5, SumIsFolding

\* Equal values have equal sums.
LEMMA SumAgree ==
    ASSUME NEW f, NEW g, NEW S, IsFiniteSet(S), \A x \in S : f[x] = g[x]
    PROVE  SumFunctionOnSet(f, S) = SumFunctionOnSet(g, S)
<1>. DEFINE Bad == {s \in SUBSET S : SumFunctionOnSet(f, s) # SumFunctionOnSet(g, s)}
<1>1. SUFFICES ASSUME Bad # {} PROVE FALSE
  OBVIOUS
<1>2. PICK s \in Bad : \A r \in Bad : r \subseteq s => r = s
  <2>1. Bad \in SUBSET SUBSET S
    OBVIOUS
  <2>2. QED
    <3>. HIDE DEF Bad
    <3>. QED  BY <1>1, <2>1, MinimalSet
<1>3. s # {}
  BY <1>2, SumEmpty
<1>4. IsFiniteSet(s)
  BY <1>2, FS_Subset
<1>. DEFINE r == s \ {Chosen(s)}
<1>5. /\ Chosen(s) \in s
      /\ SumFunctionOnSet(f, s) = f[Chosen(s)] + SumFunctionOnSet(f, r)
      /\ SumFunctionOnSet(g, s) = g[Chosen(s)] + SumFunctionOnSet(g, r)
  BY <1>3, <1>4, SumStep
<1>6. SumFunctionOnSet(f, r) = SumFunctionOnSet(g, r)
  BY <1>2, <1>5
<1>7. QED
  BY <1>2, <1>5, <1>6

\* A sum of integers is an integer.
LEMMA SumInt ==
    ASSUME NEW f, NEW S, IsFiniteSet(S), \A x \in S : f[x] \in Int
    PROVE  SumFunctionOnSet(f, S) \in Int
<1>. DEFINE Bad == {s \in SUBSET S : SumFunctionOnSet(f, s) \notin Int}
<1>1. SUFFICES ASSUME Bad # {} PROVE FALSE
  OBVIOUS
<1>2. PICK s \in Bad : \A r \in Bad : r \subseteq s => r = s
  <2>1. Bad \in SUBSET SUBSET S
    OBVIOUS
  <2>2. QED
    <3>. HIDE DEF Bad
    <3>. QED  BY <1>1, <2>1, MinimalSet
<1>3. s # {}
  <2>1. SumFunctionOnSet(f, {}) \in Int
    BY SumEmpty
  <2>2. QED
    BY <1>2, <2>1
<1>4. IsFiniteSet(s)
  BY <1>2, FS_Subset
<1>. DEFINE r == s \ {Chosen(s)}
<1>5. Chosen(s) \in s /\ SumFunctionOnSet(f, s) = f[Chosen(s)] + SumFunctionOnSet(f, r)
  BY <1>3, <1>4, SumStep
<1>6. SumFunctionOnSet(f, r) \in Int /\ f[Chosen(s)] \in Int
  BY <1>2, <1>5
<1>7. QED
  BY <1>2, <1>5, <1>6

\* Of numbers that are not negative, neither is the sum.
LEMMA SumNat ==
    ASSUME NEW f, NEW S, IsFiniteSet(S), \A x \in S : f[x] \in Nat
    PROVE  SumFunctionOnSet(f, S) \in Nat
<1>. DEFINE Bad == {s \in SUBSET S : SumFunctionOnSet(f, s) \notin Nat}
<1>1. SUFFICES ASSUME Bad # {} PROVE FALSE
  OBVIOUS
<1>2. PICK s \in Bad : \A r \in Bad : r \subseteq s => r = s
  <2>1. Bad \in SUBSET SUBSET S
    OBVIOUS
  <2>2. QED
    <3>. HIDE DEF Bad
    <3>. QED  BY <1>1, <2>1, MinimalSet
<1>3. s # {}
  <2>1. SumFunctionOnSet(f, {}) \in Nat
    BY SumEmpty
  <2>2. QED
    BY <1>2, <2>1
<1>4. IsFiniteSet(s)
  BY <1>2, FS_Subset
<1>. DEFINE r == s \ {Chosen(s)}
<1>5. Chosen(s) \in s /\ SumFunctionOnSet(f, s) = f[Chosen(s)] + SumFunctionOnSet(f, r)
  BY <1>3, <1>4, SumStep
<1>6. SumFunctionOnSet(f, r) \in Nat /\ f[Chosen(s)] \in Nat
  BY <1>2, <1>5
<1>7. QED
  BY <1>2, <1>5, <1>6

\* A sum of nothing but zeros.
LEMMA SumZero ==
    ASSUME NEW f, NEW S, IsFiniteSet(S), \A x \in S : f[x] = 0
    PROVE  SumFunctionOnSet(f, S) = 0
<1>. DEFINE Bad == {s \in SUBSET S : SumFunctionOnSet(f, s) # 0}
<1>1. SUFFICES ASSUME Bad # {} PROVE FALSE
  OBVIOUS
<1>2. PICK s \in Bad : \A r \in Bad : r \subseteq s => r = s
  <2>1. Bad \in SUBSET SUBSET S
    OBVIOUS
  <2>2. QED
    <3>. HIDE DEF Bad
    <3>. QED  BY <1>1, <2>1, MinimalSet
<1>3. s # {} /\ IsFiniteSet(s)
  <2>1. SumFunctionOnSet(f, {}) = 0
    BY SumEmpty
  <2>2. QED
    BY <1>2, <2>1, FS_Subset
<1>. DEFINE r == s \ {Chosen(s)}
<1>4. Chosen(s) \in s /\ SumFunctionOnSet(f, s) = f[Chosen(s)] + SumFunctionOnSet(f, r)
  BY <1>3, SumStep
<1>5. SumFunctionOnSet(f, r) = 0 /\ f[Chosen(s)] = 0
  <2>1. r \in SUBSET S /\ r \subseteq s /\ r # s
    BY <1>2, <1>4
  <2>2. QED
    BY <1>2, <1>4, <2>1
<1>6. QED
  BY <1>2, <1>4, <1>5

\* Numbers below zero have a sum below zero.
LEMMA SumNegative ==
    ASSUME NEW f, NEW S, IsFiniteSet(S), S # {}, \A x \in S : f[x] \in Int /\ f[x] < 0
    PROVE  SumFunctionOnSet(f, S) < 0
<1>. DEFINE Bad == {s \in SUBSET S : s # {} /\ ~(SumFunctionOnSet(f, s) < 0)}
<1>1. SUFFICES ASSUME Bad # {} PROVE FALSE
  OBVIOUS
<1>2. PICK s \in Bad : \A r \in Bad : r \subseteq s => r = s
  <2>1. Bad \in SUBSET SUBSET S
    OBVIOUS
  <2>2. QED
    <3>. HIDE DEF Bad
    <3>. QED  BY <1>1, <2>1, MinimalSet
<1>3. IsFiniteSet(s)
  BY <1>2, FS_Subset
<1>. DEFINE r == s \ {Chosen(s)}
<1>4. Chosen(s) \in s /\ SumFunctionOnSet(f, s) = f[Chosen(s)] + SumFunctionOnSet(f, r)
  BY <1>2, <1>3, SumStep
<1>5. f[Chosen(s)] \in Int /\ f[Chosen(s)] < 0
  BY <1>2, <1>4
<1>6. SumFunctionOnSet(f, r) \in Int
  <2>1. IsFiniteSet(r) /\ \A x \in r : f[x] \in Int
    BY <1>2, <1>3, FS_RemoveElement
  <2>2. QED
    <3>. HIDE DEF r
    <3>. QED  BY <2>1, SumInt
<1>7. SumFunctionOnSet(f, r) <= 0
  <2>1. CASE r = {}
    <3>1. SumFunctionOnSet(f, {}) <= 0
      BY SumEmpty
    <3>2. QED
      BY <2>1, <3>1
  <2>2. CASE r # {}
    <3>1. r \in SUBSET S /\ r \subseteq s /\ r # s
      BY <1>2, <1>4
    <3>2. SumFunctionOnSet(f, r) < 0
      BY <1>2, <2>2, <3>1
    <3>3. QED
      BY <1>6, <3>2
  <2>3. QED
    BY <2>1, <2>2
<1>8. QED
  BY <1>2, <1>4, <1>5, <1>6, <1>7

\* Any element may be taken out of a sum first.
LEMMA SumTakeOut ==
    ASSUME NEW f, NEW S, IsFiniteSet(S), \A x \in S : f[x] \in Int, NEW e \in S
    PROVE  SumFunctionOnSet(f, S) = f[e] + SumFunctionOnSet(f, S \ {e})
<1>. DEFINE Bad == {s \in SUBSET S : \E x \in s :
                       SumFunctionOnSet(f, s) # f[x] + SumFunctionOnSet(f, s \ {x})}
<1>1. SUFFICES ASSUME Bad # {} PROVE FALSE
  OBVIOUS
<1>2. PICK s \in Bad : \A r \in Bad : r \subseteq s => r = s
  <2>1. Bad \in SUBSET SUBSET S
    OBVIOUS
  <2>2. QED
    <3>. HIDE DEF Bad
    <3>. QED  BY <1>1, <2>1, MinimalSet
<1>3. PICK x \in s : SumFunctionOnSet(f, s) # f[x] + SumFunctionOnSet(f, s \ {x})
  BY <1>2
<1>4. IsFiniteSet(s)
  BY <1>2, FS_Subset
<1>. DEFINE y == Chosen(s)
            both == (s \ {x}) \ {y}
<1>5. y \in s /\ SumFunctionOnSet(f, s) = f[y] + SumFunctionOnSet(f, s \ {y})
  BY <1>3, <1>4, SumStep
<1>6. y # x
  BY <1>3, <1>5
<1>7. \A r \in SUBSET s : r # s => \A z \in r :
          SumFunctionOnSet(f, r) = f[z] + SumFunctionOnSet(f, r \ {z})
  BY <1>2
<1>8. SumFunctionOnSet(f, s \ {y}) = f[x] + SumFunctionOnSet(f, both)
  <2>1. s \ {y} \in SUBSET s /\ s \ {y} # s /\ x \in s \ {y} /\ (s \ {y}) \ {x} = both
    BY <1>3, <1>5, <1>6
  <2>2. QED
    BY <1>7, <2>1
<1>9. SumFunctionOnSet(f, s \ {x}) = f[y] + SumFunctionOnSet(f, both)
  <2>1. s \ {x} \in SUBSET s /\ s \ {x} # s /\ y \in s \ {x}
    BY <1>3, <1>5, <1>6
  <2>2. QED
    BY <1>7, <2>1
<1>10. SumFunctionOnSet(f, both) \in Int /\ f[x] \in Int /\ f[y] \in Int
  <2>1. IsFiniteSet(both) /\ \A z \in both : f[z] \in Int
    BY <1>2, <1>4, FS_RemoveElement
  <2>2. SumFunctionOnSet(f, both) \in Int
    <3>. HIDE DEF both
    <3>. QED  BY <2>1, SumInt
  <2>3. QED
    BY <1>2, <1>3, <1>5, <2>2
<1>11. QED
  BY <1>3, <1>5, <1>8, <1>9, <1>10

LEMMA SumPutIn ==
    ASSUME NEW f, NEW S, IsFiniteSet(S), \A x \in S : f[x] \in Int, NEW e, e \notin S, f[e] \in Int
    PROVE  SumFunctionOnSet(f, S \cup {e}) = f[e] + SumFunctionOnSet(f, S)
<1>. DEFINE T == S \cup {e}
<1>1. IsFiniteSet(T) /\ e \in T /\ T \ {e} = S /\ \A x \in T : f[x] \in Int
  BY FS_AddElement
<1>2. SumFunctionOnSet(f, T) = f[e] + SumFunctionOnSet(f, T \ {e})
  <2>. HIDE DEF T
  <2>. QED  BY <1>1, SumTakeOut
<1>3. QED
  BY <1>1, <1>2

\* One value changed, and the sum by as much.
LEMMA SumChange ==
    ASSUME NEW f, NEW g, NEW S, IsFiniteSet(S), NEW e \in S,
           \A x \in S : f[x] \in Int, g[e] \in Int, \A x \in S : x # e => g[x] = f[x]
    PROVE  SumFunctionOnSet(g, S) = SumFunctionOnSet(f, S) + (g[e] - f[e])
<1>. DEFINE r == S \ {e}
<1>1. IsFiniteSet(r) /\ (\A x \in r : f[x] = g[x]) /\ \A x \in r : f[x] \in Int
  BY FS_RemoveElement
<1>2. SumFunctionOnSet(f, r) = SumFunctionOnSet(g, r) /\ SumFunctionOnSet(f, r) \in Int
  <2>. HIDE DEF r
  <2>. QED  BY <1>1, SumAgree, SumInt
<1>3. SumFunctionOnSet(f, S) = f[e] + SumFunctionOnSet(f, r)
  BY SumTakeOut
<1>4. SumFunctionOnSet(g, S) = g[e] + SumFunctionOnSet(g, r)
  <2>1. \A x \in S : g[x] \in Int
    OBVIOUS
  <2>2. QED
    BY <2>1, SumTakeOut
<1>5. QED
  BY <1>2, <1>3, <1>4
=============================================================================
