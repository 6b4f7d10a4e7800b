------------------------------ MODULE FetchProofs -----------------------------
(*****************************************************************************)
(* Theorems about Fetch, for any archives, requests, ceilings and pushes:     *)
(* sums and names, the tree of an archive member by member, the invariant     *)
(* that so much of the tree is on disk as was read, and one step per action.  *)
(*****************************************************************************)
EXTENDS Fetch, FiniteSetTheorems, WellFoundedInduction, TLAPS

(*****************************************************************************)
(* Sums. The library's sum is a fold over the subsets of a set; that such a   *)
(* function exists is shown by the size of the subsets, and what it computes  *)
(* by smallest counterexamples.                                               *)
(*****************************************************************************)
Of(s) == CHOOSE x \in s : TRUE
Partial(f, iter, s) == IF s = {} THEN 0 ELSE f[Of(s)] + iter[s \ {Of(s)}]
Iter(f, S) == CHOOSE iter : iter = [s \in SUBSET S |-> Partial(f, iter, s)]
Sum(f, S) == MapThenSumSet(LAMBDA p : f[p], S)

\* The library's sum is that fold (Fetch: Bytes).
LEMMA SumIsIter == ASSUME NEW f, NEW S PROVE Sum(f, S) = Iter(f, S)[S]
BY DEF Sum, MapThenSumSet, MapThenFoldSet, Iter, Partial, Of

\* Of the natural numbers of a kind there is a smallest.
LEMMA Smallest ==
    ASSUME NEW T, T \subseteq Nat, T # {}
    PROVE  \E n \in T : \A m \in T : n <= m
<1> DEFINE Below == OpToRel(<, Nat)
<1>1. PICK n \in T : \A m \in T : <<m, n>> \notin Below
    BY NatLessThanWellFounded, WFMin
<1>2. \A m \in T : ~(m < n)
    BY <1>1 DEF OpToRel
<1> QED BY <1>2

\* The element that is picked is one of the set.
LEMMA OfIn == ASSUME NEW s, s # {} PROVE Of(s) \in s
BY DEF Of

\* A fold over the subsets of a set: one element is picked of every subset, and
\* what the rest gave is combined with it.
Rule(S, V, pick, g) ==
    /\ \A s \in SUBSET S : s # {} => pick[s] \in s
    /\ \A x \in S, v \in V : g[x][v] \in V
Folds(iter, S, base, pick, g) ==
    \A s \in SUBSET S : iter[s] = IF s = {} THEN base ELSE g[pick[s]][iter[s \ {pick[s]}]]

\* Over the subsets of a finite set such a fold exists: it is built size by size.
LEMMA FoldExists ==
    ASSUME NEW S, IsFiniteSet(S), NEW V, NEW base \in V, NEW pick, NEW g, Rule(S, V, pick, g)
    PROVE  \E iter \in [SUBSET S -> V] : Folds(iter, S, base, pick, g)
<1> DEFINE Upto(n) == {s \in SUBSET S : Cardinality(s) <= n}
           Made(iter, s) == IF s = {} THEN base ELSE g[pick[s]][iter[s \ {pick[s]}]]
           Layer(n) == \E iter \in [Upto(n) -> V] : \A s \in Upto(n) : iter[s] = Made(iter, s)
           Bad == {n \in Nat : ~Layer(n)}
<1>0. \A s \in SUBSET S : IsFiniteSet(s) /\ Cardinality(s) \in Nat
    BY FS_Subset, FS_CardinalityType
<1>1. Layer(0)
  <2>1. \A s \in Upto(0) : s = {}
      BY <1>0, FS_EmptySet
  <2> DEFINE iter == [s \in Upto(0) |-> base]
  <2>2. iter \in [Upto(0) -> V] /\ \A s \in Upto(0) : iter[s] = Made(iter, s)
      BY <2>1
  <2> QED BY <2>2
<1>2. ASSUME NEW n \in Nat, Layer(n) PROVE Layer(n + 1)
  <2>1. PICK iter \in [Upto(n) -> V] : \A s \in Upto(n) : iter[s] = Made(iter, s)
      BY <1>2
  <2> DEFINE more == [s \in Upto(n + 1) |-> Made(iter, s)]
  <2>2. ASSUME NEW s \in Upto(n + 1), s # {}
        PROVE  pick[s] \in S /\ s \ {pick[s]} \in Upto(n)
    <3>1. pick[s] \in s
        BY <2>2 DEF Rule
    <3>2. Cardinality(s \ {pick[s]}) = Cardinality(s) - 1
        BY <1>0, <3>1, FS_RemoveElement
    <3> QED BY <1>0, <3>1, <3>2
  <2>3. ASSUME NEW s \in Upto(n) PROVE more[s] = iter[s]
    <3>1. s \in Upto(n + 1)
        BY <1>0
    <3> QED BY <2>1, <3>1
  <2>4. ASSUME NEW s \in Upto(n + 1) PROVE Made(iter, s) \in V /\ Made(iter, s) = Made(more, s)
    <3>1. CASE s = {}
        BY <3>1
    <3>2. CASE s # {}
      <4>1. iter[s \ {pick[s]}] \in V /\ more[s \ {pick[s]}] = iter[s \ {pick[s]}]
          BY <2>2, <2>3, <3>2
      <4>2. g[pick[s]][iter[s \ {pick[s]}]] \in V
          BY <2>2, <3>2, <4>1 DEF Rule
      <4> QED BY <3>2, <4>1, <4>2
    <3> QED BY <3>1, <3>2
  <2>5. more \in [Upto(n + 1) -> V] /\ \A s \in Upto(n + 1) : more[s] = Made(more, s)
    <3> HIDE DEF Made, Upto
    <3> QED BY <2>4
  <2> HIDE DEF more
  <2> QED BY <2>5
<1>3. Bad = {}
  <2>1. SUFFICES ASSUME Bad # {} PROVE FALSE
      OBVIOUS
  <2>2. PICK n \in Bad : \A m \in Bad : n <= m
      BY <2>1, Smallest
  <2> HIDE DEF Layer
  <2>3. n # 0 /\ n - 1 \in Nat /\ n - 1 \notin Bad
      BY <1>1, <2>2
  <2>4. Layer((n - 1) + 1)
      BY <1>2, <2>3
  <2> QED BY <2>2, <2>4
<1>4. Layer(Cardinality(S))
  <2> HIDE DEF Layer
  <2> QED BY <1>0, <1>3
<1>5. Upto(Cardinality(S)) = SUBSET S
    BY <1>0, FS_Subset
<1> HIDE DEF Upto
<1> QED BY <1>4, <1>5 DEF Folds

\* The fold of a sum obeys its recursive equation on every subset.
LEMMA IterUnfolds ==
    ASSUME NEW f, NEW S, IsFiniteSet(S), \A x \in S : f[x] \in Nat
    PROVE  \A s \in SUBSET S : Iter(f, S)[s] = Partial(f, Iter(f, S), s)
<1> DEFINE pick == [s \in SUBSET S |-> Of(s)]
           g == [x \in S |-> [v \in Nat |-> f[x] + v]]
<1>1. PICK iter \in [SUBSET S -> Nat] : Folds(iter, S, 0, pick, g)
  <2>1. Rule(S, Nat, pick, g)
      BY OfIn DEF Rule
  <2> HIDE DEF pick, g
  <2> QED BY <2>1, FoldExists
<1>2. ASSUME NEW s \in SUBSET S PROVE iter[s] = Partial(f, iter, s)
  <2>1. CASE s = {}
      BY <1>1, <2>1 DEF Partial, Folds
  <2>2. CASE s # {}
    <3>1. Of(s) \in S /\ s \ {Of(s)} \in SUBSET S
        BY <2>2, OfIn
    <3>2. iter[s] = g[Of(s)][iter[s \ {Of(s)}]]
        BY <1>1, <2>2 DEF Folds
    <3> QED BY <1>1, <2>2, <3>1, <3>2 DEF Partial
  <2> QED BY <2>1, <2>2
<1>3. iter = [s \in SUBSET S |-> Partial(f, iter, s)]
    BY <1>1, <1>2
<1>4. Iter(f, S) = [s \in SUBSET S |-> Partial(f, Iter(f, S), s)]
    BY <1>3 DEF Iter
<1> HIDE DEF Iter
<1> QED BY <1>4

\* Of some subsets of a finite set one has none of the others in it.
LEMMA SmallestSet ==
    ASSUME NEW S, IsFiniteSet(S), NEW T, T \subseteq SUBSET S, T # {}
    PROVE  \E s \in T : \A t \in T : t \subseteq s => t = s
<1>1. PICK s \in T : \A t \in T : <<t, s>> \notin StrictSubsetOrdering(S)
  <2>1. FiniteSubsetsOf(S) = SUBSET S
      BY FS_FiniteSubsetsOfFinite
  <2>2. IsWellFoundedOn(StrictSubsetOrdering(S), SUBSET S)
      BY <2>1, FS_StrictSubsetOrderingWellFounded
  <2> QED BY <2>2, WFMin
<1>2. ASSUME NEW t \in T, t \subseteq s, t # s PROVE FALSE
    BY <1>1, <1>2 DEF StrictSubsetOrdering
<1> QED BY <1>2

\* From here on the sum is known by what it computes.
Counts(f, S) == IsFiniteSet(S) /\ \A x \in S : f[x] \in Nat

\* It is a natural number, and any element may be the one that is taken out.
LEMMA PartialSums ==
    ASSUME NEW f, NEW S, Counts(f, S)
    PROVE  /\ \A s \in SUBSET S : Iter(f, S)[s] \in Nat
           /\ \A s \in SUBSET S : \A y \in s : Iter(f, S)[s] = f[y] + Iter(f, S)[s \ {y}]
<1> DEFINE sum(s) == Iter(f, S)[s]
<1>1. sum({}) = 0
    BY IterUnfolds DEF Counts, Partial
<1>2. ASSUME NEW s \in SUBSET S, s # {}
      PROVE  Of(s) \in s /\ sum(s) = f[Of(s)] + sum(s \ {Of(s)})
  <2>1. Of(s) \in s /\ Iter(f, S)[s] = Partial(f, Iter(f, S), s)
      BY <1>2, IterUnfolds, OfIn DEF Counts
  <2> QED BY <1>2, <2>1 DEF Partial
<1> HIDE DEF sum
<1>3. \A s \in SUBSET S : sum(s) \in Nat
  <2> DEFINE Bad == {s \in SUBSET S : sum(s) \notin Nat}
  <2>1. SUFFICES ASSUME Bad # {} PROVE FALSE
      OBVIOUS
  <2>2. PICK s \in Bad : \A t \in Bad : t \subseteq s => t = s
    <3>1. Bad \subseteq SUBSET S /\ IsFiniteSet(S)
        BY DEF Counts
    <3> HIDE DEF Bad
    <3> QED BY <2>1, <3>1, SmallestSet
  <2>3. s # {}
    <3>1. sum(s) \notin Nat
        BY <2>2
    <3> QED BY <1>1, <3>1
  <2>4. Of(s) \in s /\ sum(s) = f[Of(s)] + sum(s \ {Of(s)})
      BY <1>2, <2>3
  <2>5. s \ {Of(s)} \notin Bad
      BY <2>2, <2>4
  <2>6. sum(s \ {Of(s)}) \in Nat /\ f[Of(s)] \in Nat
      BY <2>2, <2>4, <2>5 DEF Counts
  <2> QED BY <2>2, <2>4, <2>6
<1>4. \A s \in SUBSET S : \A y \in s : sum(s) = f[y] + sum(s \ {y})
  <2> DEFINE Bad == {s \in SUBSET S : \E y \in s : sum(s) # f[y] + sum(s \ {y})}
  <2>1. SUFFICES ASSUME Bad # {} PROVE FALSE
      OBVIOUS
  <2>2. PICK s \in Bad : \A t \in Bad : t \subseteq s => t = s
    <3>1. Bad \subseteq SUBSET S /\ IsFiniteSet(S)
        BY DEF Counts
    <3> HIDE DEF Bad
    <3> QED BY <2>1, <3>1, SmallestSet
  <2>3. PICK y \in s : sum(s) # f[y] + sum(s \ {y})
      BY <2>2
  <2> DEFINE x == Of(s)
             rest == (s \ {x}) \ {y}
  <2>4. x \in s /\ sum(s) = f[x] + sum(s \ {x})
      BY <1>2, <2>2, <2>3
  <2>5. x # y
      BY <2>3, <2>4
  <2>6. s \ {x} \notin Bad /\ s \ {y} \notin Bad
      BY <2>2, <2>3, <2>4
  <2> HIDE DEF x
  <2>7. s \ {x} \in SUBSET S /\ s \ {y} \in SUBSET S /\ y \in s \ {x} /\ x \in s \ {y}
      BY <2>2, <2>3, <2>4, <2>5
  <2>8. sum(s \ {x}) = f[y] + sum(rest)
      BY <2>6, <2>7
  <2>9. sum(s \ {y}) = f[x] + sum(rest)
    <3>1. (s \ {y}) \ {x} = rest
        OBVIOUS
    <3>2. sum(s \ {y}) = f[x] + sum((s \ {y}) \ {x})
        BY <2>6, <2>7
    <3> QED BY <3>1, <3>2
  <2>10. f[x] \in Nat /\ f[y] \in Nat /\ sum(rest) \in Nat
    <3>1. rest \in SUBSET S
        BY <2>2
    <3> QED BY <1>3, <2>2, <2>3, <2>4, <3>1 DEF Counts
  <2> QED BY <2>3, <2>4, <2>8, <2>9, <2>10
<1> QED BY <1>3, <1>4 DEF sum

\* Two folds agree wherever what they add agrees.
LEMMA SumsAgree ==
    ASSUME NEW f, NEW g, NEW S, NEW T, Counts(f, S), Counts(g, T),
           \A x \in S \cap T : f[x] = g[x]
    PROVE  \A s \in SUBSET (S \cap T) : Iter(f, S)[s] = Iter(g, T)[s]
<1> DEFINE Bad == {s \in SUBSET (S \cap T) : Iter(f, S)[s] # Iter(g, T)[s]}
<1>1. SUFFICES ASSUME Bad # {} PROVE FALSE
    OBVIOUS
<1>2. PICK s \in Bad : \A t \in Bad : t \subseteq s => t = s
  <2>1. Bad \subseteq SUBSET (S \cap T) /\ IsFiniteSet(S \cap T)
      BY FS_Subset DEF Counts
  <2> HIDE DEF Bad
  <2> QED BY <1>1, <2>1, SmallestSet
<1>3. Iter(f, S)[s] = Partial(f, Iter(f, S), s) /\ Iter(g, T)[s] = Partial(g, Iter(g, T), s)
    BY <1>2, IterUnfolds DEF Counts
<1>4. s # {}
    BY <1>2, <1>3 DEF Partial
<1>5. Of(s) \in s
    BY <1>4, OfIn
<1>6. s \ {Of(s)} \notin Bad
    BY <1>2, <1>5
<1>7. Iter(f, S)[s \ {Of(s)}] = Iter(g, T)[s \ {Of(s)}] /\ f[Of(s)] = g[Of(s)]
    BY <1>2, <1>5, <1>6
<1> QED BY <1>2, <1>3, <1>4, <1>7 DEF Partial

\* The sum of nothing is zero.
LEMMA SumEmpty == ASSUME NEW f PROVE Sum(f, {}) = 0
<1>1. IsFiniteSet({}) /\ \A x \in {} : f[x] \in Nat
    BY FS_EmptySet
<1> QED BY <1>1, SumIsIter, IterUnfolds DEF Partial

\* A sum of natural numbers is one.
LEMMA SumNat == ASSUME NEW f, NEW S, Counts(f, S) PROVE Sum(f, S) \in Nat
BY SumIsIter, PartialSums

\* A sum depends on what is added only.
LEMMA SumSame ==
    ASSUME NEW f, NEW g, NEW S, Counts(f, S), \A x \in S : f[x] = g[x]
    PROVE  Sum(f, S) = Sum(g, S)
<1>1. Counts(g, S)
    BY DEF Counts
<1> QED BY <1>1, SumIsIter, SumsAgree

\* One summand can be taken out of a sum.
LEMMA SumWithout ==
    ASSUME NEW f, NEW S, Counts(f, S), NEW y \in S
    PROVE  Sum(f, S) = f[y] + Sum(f, S \ {y})
<1>1. Counts(f, S \ {y})
    BY FS_Subset DEF Counts
<1>2. Iter(f, S)[S \ {y}] = Iter(f, S \ {y})[S \ {y}]
    BY <1>1, SumsAgree
<1> QED BY <1>2, SumIsIter, PartialSums

-------------------------------------------------------------------------------
(* Names.                                                                     *)

\* A bounded set of numbers has a largest one.
LEMMA MaxIn ==
    ASSUME NEW n \in Nat, NEW s, s \subseteq 0 .. n, s # {}
    PROVE  Max(s) \in s /\ \A m \in s : m <= Max(s)
<1> DEFINE T == {n - m : m \in s}
<1>1. T \subseteq Nat /\ T # {}
  <2>1. ASSUME NEW m \in s PROVE n - m \in Nat
      BY m \in 0 .. n
  <2> QED BY <2>1
<1> HIDE DEF T
<1>2. PICK t \in T : \A u \in T : t <= u
    BY <1>1, Smallest
<1> USE DEF T
<1>3. PICK k \in s : t = n - k
    BY <1>2
<1>4. \A m \in s : m <= k
    BY <1>2, <1>3
<1>5. \A m \in s : k >= m
    BY <1>3, <1>4
<1>6. Max(s) \in s /\ \A m \in s : Max(s) >= m
    BY <1>3, <1>5 DEF Max
<1> QED BY <1>6

\* A set of natural numbers has a smallest one.
LEMMA MinIn ==
    ASSUME NEW s, s \subseteq Nat, s # {}
    PROVE  Min(s) \in s /\ \A m \in s : Min(s) <= m
<1>1. PICK k \in s : \A m \in s : k <= m
    BY Smallest
<1>2. Min(s) \in s /\ \A m \in s : Min(s) =< m
    BY <1>1 DEF Min
<1> QED BY <1>2

Kept(name, iter, s) ==
    IF s = {} THEN <<>>
    ELSE IF name[Max(s)] = "." THEN iter[s \ {Max(s)}]
    ELSE Append(iter[s \ {Max(s)}], name[Max(s)])
KeptIter(name) == CHOOSE iter : iter = [s \in SUBSET DOMAIN name |-> Kept(name, iter, s)]

\* The place of a name is a fold over its components (Fetch: Joined, safe_join).
LEMMA JoinedIsIter == ASSUME NEW name PROVE Joined(name) = KeptIter(name)[DOMAIN name]
BY DEF Joined, FoldLeft, MapThenFoldSet, KeptIter, Kept

\* A place is made of the components of the name but ".".
Places(name) ==
    {p \in Seq(STRING) : \A k \in DOMAIN p : p[k] # "." /\ \E j \in DOMAIN name : p[k] = name[j]}

\* A place is a path, and has no component that its name has not.
LEMMA JoinedPlaces ==
    ASSUME NEW name \in Seq(STRING)
    PROVE  Joined(name) \in Places(name)
<1> DEFINE S == DOMAIN name
           V == Places(name)
           pick == [s \in SUBSET S |-> Max(s)]
           g == [x \in S |-> [v \in V |-> IF name[x] = "." THEN v ELSE Append(v, name[x])]]
<1>0. S = 1 .. Len(name) /\ Len(name) \in Nat /\ IsFiniteSet(S)
    BY FS_Interval
<1>1. \A s \in SUBSET S : s # {} => Max(s) \in s
    BY <1>0, MaxIn
<1>2. ASSUME NEW x \in S, NEW v \in V
      PROVE  (IF name[x] = "." THEN v ELSE Append(v, name[x])) \in V
  <2>1. CASE name[x] = "."
      BY <2>1
  <2>2. CASE name[x] # "."
    <3>1. v \in Seq(STRING) /\ name[x] \in STRING
        BY <1>0 DEF Places
    <3> DEFINE w == Append(v, name[x])
    <3>2. w \in Seq(STRING) /\ Len(w) = Len(v) + 1 /\ w[Len(v) + 1] = name[x]
        BY <3>1
    <3>3. \A k \in 1 .. Len(v) : w[k] = v[k]
        BY <3>1
    <3>4. ASSUME NEW k \in DOMAIN w PROVE w[k] # "." /\ \E j \in DOMAIN name : w[k] = name[j]
      <4>1. k \in 1 .. Len(v) \/ k = Len(v) + 1
          BY <3>1, <3>2
      <4>2. CASE k \in 1 .. Len(v)
          BY <3>1, <3>3, <4>2 DEF Places
      <4>3. CASE k = Len(v) + 1
          BY <2>2, <3>2, <4>3
      <4> QED BY <4>1, <4>2, <4>3
    <3> HIDE DEF w
    <3>5. w \in V
        BY <3>2, <3>4 DEF Places
    <3> QED BY <2>2, <3>5 DEF w
  <2> QED BY <2>1, <2>2
<1>3. <<>> \in V
    BY DEF Places
<1> HIDE DEF V
<1>4. PICK iter \in [SUBSET S -> V] : Folds(iter, S, <<>>, pick, g)
  <2>1. Rule(S, V, pick, g)
      BY <1>1, <1>2 DEF Rule
  <2> HIDE DEF pick, g, S
  <2> QED BY <1>0, <1>3, <2>1, FoldExists
<1>5. ASSUME NEW s \in SUBSET S PROVE iter[s] = Kept(name, iter, s)
  <2>1. CASE s = {}
      BY <1>4, <2>1 DEF Folds, Kept
  <2>2. CASE s # {}
    <3>1. Max(s) \in S /\ s \ {Max(s)} \in SUBSET S
        BY <1>1, <2>2
    <3>2. iter[s] = g[Max(s)][iter[s \ {Max(s)}]]
        BY <1>4, <2>2 DEF Folds
    <3> QED BY <1>4, <2>2, <3>1, <3>2 DEF Kept
  <2> QED BY <2>1, <2>2
<1>6. iter = [s \in SUBSET S |-> Kept(name, iter, s)]
    BY <1>4, <1>5
<1> DEFINE all == KeptIter(name)
<1>7. all = [s \in SUBSET S |-> Kept(name, all, s)]
    BY <1>6 DEF KeptIter
<1> HIDE DEF all
<1>8. \A s \in SUBSET S : all[s] \in V
  <2> DEFINE Bad == {s \in SUBSET S : all[s] \notin V}
  <2>1. SUFFICES ASSUME Bad # {} PROVE FALSE
      OBVIOUS
  <2>2. PICK s \in Bad : \A t \in Bad : t \subseteq s => t = s
    <3>1. Bad \subseteq SUBSET S /\ IsFiniteSet(S)
        BY <1>0
    <3> HIDE DEF Bad, S
    <3> QED BY <2>1, <3>1, SmallestSet
  <2>3. all[s] = Kept(name, all, s)
      BY <1>7, <2>2
  <2>4. s # {}
    <3>1. all[s] # <<>>
        BY <1>3, <2>2
    <3> QED BY <2>3, <3>1 DEF Kept
  <2>5. Max(s) \in s /\ Max(s) \in S
      BY <1>1, <2>2, <2>4
  <2>6. all[s \ {Max(s)}] \in V
      BY <2>2, <2>5
  <2> QED BY <1>2, <2>2, <2>3, <2>4, <2>5, <2>6 DEF Kept
<1> QED BY <1>8, JoinedIsIter DEF all, V

\* A component that would lead out of the root has no place.
Proper(p) == p \in Seq(STRING) /\ \A k \in 1 .. Len(p) : p[k] \notin {"..", "/", "."}

\* A name that safe_join lets pass has a place within the root.
LEMMA JoinedProper ==
    ASSUME NEW name \in Seq(STRING)
    PROVE  Joined(name) \in Seq(STRING) /\ (JoinError(name) = "none" => Proper(Joined(name)))
<1> DEFINE place == Joined(name)
           I == {i \in 1 .. Len(name) : name[i] \in {"..", "/", "long"}}
<1>1. /\ place \in Seq(STRING)
      /\ \A k \in DOMAIN place : place[k] # "." /\ \E j \in DOMAIN name : place[k] = name[j]
    BY JoinedPlaces DEF Places
<1> HIDE DEF place
<1>2. ASSUME JoinError(name) = "none" PROVE I = {}
  <2>1. SelectInSeq(name, LAMBDA c : c \in {"..", "/", "long"}) = IF I # {} THEN Min(I) ELSE 0
      BY DEF SelectInSeq
  <2>2. I # {} => Min(I) \in I
    <3>1. I \subseteq Nat
        OBVIOUS
    <3> HIDE DEF I
    <3> QED BY <3>1, MinIn
  <2>3. (IF I # {} THEN Min(I) ELSE 0) = 0
    <3> HIDE DEF I
    <3> QED BY <1>2, <2>1 DEF JoinError
  <2> QED BY <2>2, <2>3
<1>3. ASSUME JoinError(name) = "none", NEW k \in 1 .. Len(place)
      PROVE  place[k] \notin {"..", "/", "."}
  <2>1. PICK j \in 1 .. Len(name) : place[k] = name[j] /\ place[k] # "."
      BY <1>1
  <2>2. j \notin I
      BY <1>2, <1>3
  <2> QED BY <2>1, <2>2
<1> QED BY <1>1, <1>3 DEF Proper, place

\* What is above a place within the root is within it too.
LEMMA AboveProper ==
    ASSUME NEW p, Proper(p), NEW q \in Above(p)
    PROVE  Proper(q) /\ Above(q) \subseteq Above(p)
<1>1. PICK k \in 0 .. Len(p) - 1 : q = SubSeq(p, 1, k)
    BY DEF Above
<1>2. Len(p) \in Nat /\ p \in Seq(STRING)
    BY DEF Proper
<1>3. q \in Seq(STRING) /\ Len(q) = k /\ \A i \in 1 .. k : q[i] = p[i]
    BY <1>1, <1>2
<1>4. Proper(q)
    BY <1>1, <1>2, <1>3 DEF Proper
<1>5. ASSUME NEW l \in 0 .. Len(q) - 1
      PROVE  SubSeq(q, 1, l) = SubSeq(p, 1, l) /\ l \in 0 .. Len(p) - 1
    BY <1>1, <1>2, <1>3
<1> QED BY <1>4, <1>5 DEF Above

-------------------------------------------------------------------------------
(* The tree of an archive, member by member. `n` members make a tree; one more *)
(* adds its file or its directory, with what is above it.                     *)

IsArchive(members) == members \in Seq([type : STRING, name : Seq(STRING), size : Nat])

Used(members, l) == members[l].type \in {"file", "dir", "other"}
Named(members, k) ==
    {j \in 1 .. k - 1 : /\ members[j].type = "name" /\ members[j].name # NoName
                        /\ \A l \in j + 1 .. k - 1 : ~Used(members, l)}
PendingAt(members, k) ==
    IF Named(members, k) = {} THEN NoName ELSE members[Max(Named(members, k))].name

Ones(members, n, type) == {k \in 1 .. n : members[k].type = type}
At(members, n, p) == {k \in Ones(members, n, "file") : NameAt(members, k) = p}
Paths(members, n) == {NameAt(members, k) : k \in Ones(members, n, "file")}
Folders(members, n) == {NameAt(members, k) : k \in Ones(members, n, "dir")}
FilesOf(members, n) == [p \in Paths(members, n) |-> members[Max(At(members, n, p))].size]
DirsOf(members, n) ==
    {NoName} \cup Folders(members, n)
        \cup UNION {Above(p) : p \in Paths(members, n) \cup Folders(members, n)}

\* The tree of an archive is that of all of its members.
LEMMA TreeIsOfAll ==
    ASSUME NEW archive
    PROVE  TreeOf(archive) = [files |-> FilesOf(archive.members, Len(archive.members)),
                              dirs |-> DirsOf(archive.members, Len(archive.members))]
BY DEF TreeOf, FilesOf, DirsOf, Paths, Folders, At, Ones

\* Whatever name a member has, it was read off the headers before it.
LEMMA NameIsPending ==
    ASSUME NEW members, NEW k \in Nat \ {0}
    PROVE  /\ NameAt(members, k) =
                 Joined(IF PendingAt(members, k) # NoName THEN PendingAt(members, k)
                        ELSE members[k].name)
           /\ PendingAt(members, 1) = NoName
<1> DEFINE named == Named(members, k)
<1>1. NameAt(members, k) = Joined(IF named = {} THEN members[k].name ELSE members[Max(named)].name)
    BY DEF NameAt, Named, Used
<1>2. named # {} => Max(named) \in named
  <2>1. named \subseteq 0 .. k - 1 /\ k - 1 \in Nat
      BY DEF Named
  <2> HIDE DEF named
  <2> QED BY <2>1, MaxIn
<1>3. named # {} => members[Max(named)].name # NoName
    BY <1>2 DEF Named
<1>4. PendingAt(members, 1) = NoName
  <2>1. Named(members, 1) = {}
      BY DEF Named
  <2> QED BY <2>1 DEF PendingAt
<1> QED BY <1>1, <1>3, <1>4 DEF PendingAt

\* The name that waits after a member: its own, if it is a name header; none, if it used one.
LEMMA PendingNext ==
    ASSUME NEW members, NEW k \in Nat \ {0}
    PROVE  PendingAt(members, k + 1) =
               IF Used(members, k) THEN NoName
               ELSE IF members[k].type = "name" /\ members[k].name # NoName THEN members[k].name
               ELSE PendingAt(members, k)
<1> DEFINE before == Named(members, k)
           after == Named(members, k + 1)
<1>1. \A j : j \in 1 .. (k + 1) - 1 <=> j \in 1 .. k - 1 \/ j = k
    OBVIOUS
<1>2. CASE Used(members, k)
  <2>1. after = {}
    <3>1. ASSUME NEW j \in after PROVE FALSE
      <4>1. j \in 1 .. k /\ members[j].type = "name" /\ \A l \in j + 1 .. k : ~Used(members, l)
          BY <3>1 DEF Named
      <4>2. j # k
          BY <1>2, <4>1 DEF Used
      <4>3. k \in j + 1 .. k
          BY <4>1, <4>2
      <4> QED BY <1>2, <4>1, <4>3
    <3> QED BY <3>1
  <2> QED BY <1>2, <2>1 DEF PendingAt
<1>3. CASE ~Used(members, k) /\ members[k].type = "name" /\ members[k].name # NoName
  <2>1. k \in after /\ after \subseteq 0 .. k /\ after # {} /\ k \in Nat
      BY <1>3 DEF Named
  <2> HIDE DEF after
  <2>2. Max(after) \in after /\ \A m \in after : m <= Max(after)
      BY <2>1, MaxIn
  <2> DEFINE top == Max(after)
  <2>3. top \in 0 .. k /\ k <= top
      BY <2>1, <2>2
  <2> HIDE DEF top
  <2>4. top = k
      BY <2>3
  <2> QED BY <1>3, <2>1, <2>4 DEF PendingAt, after, top
<1>4. CASE ~Used(members, k) /\ ~(members[k].type = "name" /\ members[k].name # NoName)
  <2>1. ASSUME NEW j PROVE j \in after <=> j \in before
    <3>1. CASE j \in 1 .. k - 1
      <4>1. \A l : l \in j + 1 .. (k + 1) - 1 <=> l \in j + 1 .. k - 1 \/ l = k
          BY <3>1
      <4> QED BY <1>4, <3>1, <4>1 DEF Named
    <3>2. CASE j \notin 1 .. k - 1
        BY <1>1, <1>4, <3>2 DEF Named
    <3> QED BY <3>1, <3>2
  <2>2. after = before
      BY <2>1
  <2> QED BY <1>4, <2>2 DEF PendingAt
<1> QED BY <1>2, <1>3, <1>4

\* One more member is one more of its type, and of no other.
LEMMA OnesNext ==
    ASSUME NEW members, NEW n \in Nat
    PROVE  \A type :
        /\ members[n + 1].type = type =>
               Ones(members, n + 1, type) = Ones(members, n, type) \cup {n + 1}
        /\ members[n + 1].type # type =>
               Ones(members, n + 1, type) = Ones(members, n, type)
<1>1. \A k : k \in 1 .. n + 1 <=> k \in 1 .. n \/ k = n + 1
    OBVIOUS
<1> QED BY <1>1 DEF Ones

\* A file is added, or replaced by a later one of the same name.
LEMMA FileAdded ==
    ASSUME NEW members, NEW n \in Nat, members[n + 1].type = "file"
    PROVE  LET q == NameAt(members, n + 1)
           IN  /\ FilesOf(members, n + 1) =
                      [p \in Paths(members, n) \cup {q} |->
                          IF p = q THEN members[n + 1].size ELSE FilesOf(members, n)[p]]
               /\ DirsOf(members, n + 1) = DirsOf(members, n) \cup Above(q)
<1> DEFINE q == NameAt(members, n + 1)
<1>1. /\ Ones(members, n + 1, "file") = Ones(members, n, "file") \cup {n + 1}
      /\ Ones(members, n + 1, "dir") = Ones(members, n, "dir")
    BY OnesNext
<1>2. /\ Paths(members, n + 1) = Paths(members, n) \cup {q}
      /\ Folders(members, n + 1) = Folders(members, n)
    BY <1>1 DEF Paths, Folders
<1>3. ASSUME NEW p, p # q PROVE At(members, n + 1, p) = At(members, n, p)
    BY <1>1, <1>3 DEF At
<1>4. Max(At(members, n + 1, q)) = n + 1
  <2> DEFINE at == At(members, n + 1, q)
  <2>1. n + 1 \in at /\ at \subseteq 0 .. n + 1 /\ at # {} /\ n + 1 \in Nat
      BY <1>1 DEF At, Ones
  <2> HIDE DEF at
  <2>2. Max(at) \in at /\ \A m \in at : m <= Max(at)
      BY <2>1, MaxIn
  <2> DEFINE top == Max(at)
  <2>3. top \in 0 .. n + 1 /\ n + 1 <= top
      BY <2>1, <2>2
  <2> HIDE DEF top
  <2>4. top = n + 1
      BY <2>3
  <2> QED BY <2>4 DEF at, top
<1> HIDE DEF q
<1>5. FilesOf(members, n + 1) =
          [p \in Paths(members, n) \cup {q} |->
              IF p = q THEN members[n + 1].size ELSE FilesOf(members, n)[p]]
    BY <1>2, <1>3, <1>4 DEF FilesOf
<1>6. DirsOf(members, n + 1) = DirsOf(members, n) \cup Above(q)
    BY <1>2 DEF DirsOf
<1> QED BY <1>5, <1>6 DEF q

\* A directory is added, with what is above it.
LEMMA FolderAdded ==
    ASSUME NEW members, NEW n \in Nat, members[n + 1].type = "dir"
    PROVE  LET q == NameAt(members, n + 1)
           IN  /\ FilesOf(members, n + 1) = FilesOf(members, n)
               /\ DirsOf(members, n + 1) = DirsOf(members, n) \cup Above(q) \cup {q}
<1> DEFINE q == NameAt(members, n + 1)
<1>1. /\ Ones(members, n + 1, "dir") = Ones(members, n, "dir") \cup {n + 1}
      /\ Ones(members, n + 1, "file") = Ones(members, n, "file")
    BY OnesNext
<1>2. /\ Folders(members, n + 1) = Folders(members, n) \cup {q}
      /\ Paths(members, n + 1) = Paths(members, n)
    BY <1>1 DEF Paths, Folders
<1> HIDE DEF q
<1>3. FilesOf(members, n + 1) = FilesOf(members, n)
    BY <1>1, <1>2 DEF FilesOf, At
<1>4. DirsOf(members, n + 1) = DirsOf(members, n) \cup Above(q) \cup {q}
    BY <1>2 DEF DirsOf
<1> QED BY <1>3, <1>4 DEF q

\* A member of any other type adds nothing to the tree.
LEMMA NothingAdded ==
    ASSUME NEW members, NEW n \in Nat, members[n + 1].type \notin {"file", "dir"}
    PROVE  /\ FilesOf(members, n + 1) = FilesOf(members, n)
           /\ DirsOf(members, n + 1) = DirsOf(members, n)
<1>1. /\ Ones(members, n + 1, "dir") = Ones(members, n, "dir")
      /\ Ones(members, n + 1, "file") = Ones(members, n, "file")
    BY OnesNext
<1> QED BY <1>1 DEF FilesOf, DirsOf, At, Paths, Folders

-------------------------------------------------------------------------------
(* The invariant.                                                             *)

Members == Tar.members
Served == {"body", "extract", "member", "snapshot"}

Shape ==
    /\ repo \in [Shas -> Archives] /\ head \in Shas /\ request \in Requests
    /\ stage \in {"start", "access", "head", "download", "done"} \cup Served
    /\ {received, left, charged, entries} \subseteq Nat /\ next \in Nat \ {0}
    /\ target \in Seq(STRING) /\ pending \in Seq(STRING)
    /\ files \in [DOMAIN files -> Nat] /\ IsFiniteSet(DOMAIN files)

\* The commit is the one that was asked for, and the body is of that commit.
Chosen ==
    /\ stage = "head" => request.pin = NoSha
    /\ stage \in {"download"} \cup Served =>
          sha \in Shas /\ (request.pin \in Shas => sha = request.pin)
    /\ stage \in Served => served = sha

\* Nothing is on disk before extraction.
Fresh ==
    /\ stage = "start" => files = NoFile /\ dirs = {}
    /\ stage \in {"access", "head", "download", "body"} => files = NoFile /\ dirs = {NoName}
    /\ stage \in {"start", "access", "head", "download", "body"} => next = 1 /\ pending = NoName

\* What is on disk was charged.
Budget ==
    /\ received <= MaxDownload
    /\ Cardinality(DOMAIN files) <= entries /\ entries <= MaxFiles
    /\ Bytes <= charged /\ charged <= MaxTotal
    /\ \A p \in DOMAIN files : files[p] <= MaxFile

\* What is on disk is within the root, and in directories that are there.
Inside ==
    /\ \A p \in DOMAIN files \cup dirs : Proper(p) /\ Above(p) \subseteq dirs
    /\ stage = "done" /\ outcome # "fetched" => DOMAIN files = {} /\ dirs = {}

\* So much of the archive is on disk as was read.
Extracted ==
    /\ stage = "extract" =>
          /\ next <= Len(Members) + 1 /\ pending = PendingAt(Members, next)
          /\ files = FilesOf(Members, next - 1) /\ dirs = DirsOf(Members, next - 1)
    /\ stage = "member" =>
          /\ next <= Len(Members) /\ pending = PendingAt(Members, next + 1)
          /\ Member.type \in {"file", "dir", "name", "global", "other"}
          /\ left <= Member.size
          /\ Member.type \in {"file", "dir"} => target = NameAt(Members, next) /\ Proper(target)
          /\ Member.type = "file" =>
                /\ Member.size <= MaxFile /\ target \in DOMAIN files
                /\ files = [FilesOf(Members, next) EXCEPT ![target] = Member.size - left]
                /\ dirs = DirsOf(Members, next)
          /\ Member.type # "file" =>
                files = FilesOf(Members, next - 1) /\ dirs = DirsOf(Members, next - 1)
    /\ stage = "snapshot" =>
          files = FilesOf(Members, Len(Members)) /\ dirs = DirsOf(Members, Len(Members))

Recorded ==
    stage = "done" /\ outcome = "fetched" /\ dirs # {} =>
        /\ snap.commit \in Shas
        /\ files = FilesOf(repo[snap.commit].members, Len(repo[snap.commit].members))
        /\ dirs = DirsOf(repo[snap.commit].members, Len(repo[snap.commit].members))
        /\ request.pin \in Shas => snap.commit = request.pin
        /\ snap.count = Cardinality(DOMAIN files) /\ snap.size = Bytes
        /\ snap.directories = dirs \ {NoName}
        /\ snap.opened = {p \in DOMAIN files : p \notin snap.sensitive}

FetchInv ==
    Shape /\ Chosen /\ Fresh /\ Budget /\ Inside /\ Extracted /\ Recorded

\* What the disk holds is the sum of its files, before a step and after it.
LEMMA BytesIsSum == Bytes = Sum(files, DOMAIN files) /\ Bytes' = Sum(files', DOMAIN files')
BY SumIsIter DEF Bytes, MapThenSumSet, MapThenFoldSet, Iter, Partial, Of

\* A step that leaves the files alone leaves their bytes alone.
LEMMA BytesStay == files' = files => Bytes' = Bytes
BY BytesIsSum

\* An empty disk holds nothing.
LEMMA NoFileHolds ==
    /\ NoFile \in [DOMAIN NoFile -> Nat] /\ DOMAIN NoFile = {} /\ IsFiniteSet(DOMAIN NoFile)
    /\ Cardinality(DOMAIN NoFile) = 0 /\ Sum(NoFile, DOMAIN NoFile) = 0
<1>1. NoFile \in [{} -> Nat] /\ DOMAIN NoFile = {}
    BY DEF NoFile
<1> QED BY <1>1, FS_EmptySet, SumEmpty

\* A file is written: its place is new, or what was there is gone.
Put(f, q, g) ==
    /\ DOMAIN g = DOMAIN f \cup {q} /\ g \in [DOMAIN g -> Nat]
    /\ \A p \in DOMAIN f \ {q} : g[p] = f[p]

\* What a written file takes.
Takes(f, q, g) ==
    /\ IsFiniteSet(DOMAIN g)
    /\ Sum(g, DOMAIN g) \in Nat /\ Sum(f, DOMAIN f) \in Nat /\ Sum(f, DOMAIN f \ {q}) \in Nat
    /\ Sum(g, DOMAIN g) = g[q] + Sum(f, DOMAIN f \ {q})
    /\ q \in DOMAIN f => Sum(f, DOMAIN f) = f[q] + Sum(f, DOMAIN f \ {q})
    /\ Sum(f, DOMAIN f \ {q}) <= Sum(f, DOMAIN f)
    /\ Cardinality(DOMAIN g) <= Cardinality(DOMAIN f) + 1
    /\ Cardinality(DOMAIN f) \in Nat /\ Cardinality(DOMAIN g) \in Nat

\* That a written file takes so much.
LEMMA FilePut ==
    ASSUME NEW f, NEW q, NEW g, Counts(f, DOMAIN f), Put(f, q, g)
    PROVE  Takes(f, q, g)
<1> DEFINE D == DOMAIN f
<1>1. IsFiniteSet(D) /\ (\A x \in D : f[x] \in Nat) /\ DOMAIN g = D \cup {q}
      /\ (\A x \in D \ {q} : g[x] = f[x]) /\ (\A x \in D \cup {q} : g[x] \in Nat)
    BY DEF Counts, Put
<1>2. IsFiniteSet(D \cup {q}) /\ IsFiniteSet(D \ {q})
    BY <1>1, FS_AddElement, FS_RemoveElement
<1>3. Counts(g, D \cup {q}) /\ Counts(f, D) /\ Counts(f, D \ {q}) /\ q \in D \cup {q}
    BY <1>1, <1>2 DEF Counts
<1>5. Cardinality(D \cup {q}) <= Cardinality(D) + 1 /\ Cardinality(D) \in Nat
      /\ Cardinality(D \cup {q}) \in Nat
    BY <1>1, <1>2, FS_AddElement, FS_CardinalityType
<1> HIDE DEF D
<1>6. Sum(g, D \cup {q}) = g[q] + Sum(g, (D \cup {q}) \ {q}) /\ (D \cup {q}) \ {q} = D \ {q}
    BY <1>3, SumWithout
<1>7. Sum(g, D \ {q}) = Sum(f, D \ {q})
    BY <1>1, <1>3, SumSame
<1>8. Sum(g, D \cup {q}) \in Nat /\ Sum(f, D) \in Nat /\ Sum(f, D \ {q}) \in Nat
    BY <1>3, SumNat
<1>9. q \in D => Sum(f, D) = f[q] + Sum(f, D \ {q})
    BY <1>3, SumWithout
<1>10. Sum(f, D \ {q}) <= Sum(f, D)
  <2>1. CASE q \in D
      BY <2>1, <1>1, <1>8, <1>9
  <2>2. CASE q \notin D
    <3>1. D \ {q} = D
        BY <2>2
    <3> QED BY <3>1, <1>8
  <2> QED BY <2>1, <2>2
<1> QED BY <1>1, <1>2, <1>5, <1>6, <1>7, <1>8, <1>9, <1>10 DEF D, Takes

\* What GitHub has for a commit is an archive.
LEMMA ArchivesAre ==
    ASSUME repo \in [Shas -> Archives], NEW s \in Shas
    PROVE  /\ IsArchive(repo[s].members)
           /\ repo[s].declared \in Nat /\ repo[s].packed \in Nat
BY FetchAssumption DEF IsArchive

\* The phase starts with nothing fetched.
LEMMA InitHolds == Init => FetchInv
<1> SUFFICES ASSUME Init PROVE FetchInv
    OBVIOUS
<1>1. files = NoFile /\ dirs = {} /\ stage = "start" /\ outcome = "none"
    BY DEF Init
<1>2. Shape
    BY <1>1, NoFileHolds DEF Init, Shape, NoName
<1>3. Chosen /\ Fresh /\ Extracted /\ Recorded
    BY <1>1 DEF Init, Chosen, Fresh, Extracted, Recorded, Served
<1>4. Inside
    BY <1>1, NoFileHolds DEF Inside
<1>5. Budget
  <2>1. \A p \in DOMAIN files : files[p] <= MaxFile
      BY <1>1, NoFileHolds
  <2>2. MaxFiles \in Nat /\ MaxTotal \in Nat /\ MaxDownload \in Nat
      BY FetchAssumption
  <2> QED BY <1>1, <2>1, <2>2, NoFileHolds, BytesIsSum DEF Budget, Init
<1> QED BY <1>2, <1>3, <1>4, <1>5 DEF FetchInv

\* However the phase fails, nothing is left.
LEMMA ReturnStep ==
    ASSUME FetchInv, NEW result, result # "fetched", Return(result)
    PROVE  FetchInv'
<1>1. /\ files' = NoFile /\ dirs' = {} /\ stage' = "done" /\ outcome' = result
      /\ UNCHANGED <<repo, head, request, sha, served, received, next, left, target, charged,
                     entries, pending>>
    BY DEF Return, Unguarded
<1>2. Shape'
    BY <1>1, NoFileHolds DEF FetchInv, Shape
<1>3. Chosen' /\ Fresh' /\ Extracted' /\ Recorded'
    BY <1>1 DEF Chosen, Fresh, Extracted, Recorded, Served
<1>4. Inside'
    BY <1>1, NoFileHolds DEF Inside
<1>5. Budget'
  <2>1. \A p \in DOMAIN files' : files'[p] <= MaxFile
      BY <1>1, NoFileHolds
  <2>2. Bytes' = 0 /\ Cardinality(DOMAIN files') = 0
      BY <1>1, NoFileHolds, BytesIsSum
  <2>3. received <= MaxDownload /\ entries <= MaxFiles /\ charged <= MaxTotal
        /\ entries \in Nat /\ charged \in Nat
      BY DEF FetchInv, Budget, Shape
  <2> QED BY <1>1, <2>1, <2>2, <2>3 DEF Budget
<1> QED BY <1>2, <1>3, <1>4, <1>5 DEF FetchInv

\* The user's flag and the branch are not what the disk depends on.
LEMMA QuietStep ==
    ASSUME FetchInv, head' \in Shas,
           UNCHANGED <<repo, request, stage, outcome, sha, served, received, disk, next, left,
                       target, charged, entries, pending, snap>>
    PROVE  FetchInv'
<1>1. Shape' /\ Chosen' /\ Fresh'
    BY DEF FetchInv, Shape, Chosen, Fresh, disk
<1>2. Budget' /\ Inside'
    BY BytesStay DEF FetchInv, Budget, Inside, disk
<1>3. Extracted'
    BY DEF FetchInv, Extracted, Member, Members, Tar, disk
<1>4. Recorded'
    BY BytesStay DEF FetchInv, Recorded, disk
<1> QED BY <1>1, <1>2, <1>3, <1>4 DEF FetchInv

-------------------------------------------------------------------------------
(* Before the first member.                                                   *)

Before == {"start", "access", "head", "download", "body"}

\* A stage is left for the next one: only what is chosen and received changes.
LEMMA IntakeStep ==
    ASSUME FetchInv, stage \in Before, stage' \in Before \ {"start"}, files' = files,
           dirs' = {NoName}, Chosen', received' \in Nat, received' <= MaxDownload, Stay, Reading
    PROVE  FetchInv'
<1>1. files = NoFile /\ next = 1 /\ pending = NoName
    BY DEF FetchInv, Fresh, Before
<1>2. Shape'
    BY DEF FetchInv, Shape, Stay, Reading, Before, Served
<1>3. Fresh' /\ Extracted' /\ Recorded'
    BY <1>1 DEF Fresh, Extracted, Recorded, Before, Reading
<1>4. Budget'
  <2>1. Bytes' = Bytes
      BY BytesStay
  <2> QED BY <2>1 DEF FetchInv, Budget, Reading
<1>5. Inside'
  <2>1. Proper(NoName) /\ Above(NoName) = {}
      BY DEF Proper, Above, NoName
  <2> QED BY <1>1, <2>1, NoFileHolds DEF Inside, Before
<1> QED BY <1>2, <1>3, <1>4, <1>5 DEF FetchInv

\* No failure is reported as a success.
LEMMA Reasons ==
    /\ \A status \in {401, 403, 404, 429, 500}, exhausted \in BOOLEAN :
          AccessError(status, exhausted) # "fetched"
    /\ \A name : JoinError(name) # "fetched"
    /\ FileError # "fetched" /\ DirError # "fetched"
<1>1. \A name : JoinError(name) # "fetched"
    BY DEF JoinError
<1>2. \A status \in {401, 403, 404, 429, 500}, exhausted \in BOOLEAN :
          AccessError(status, exhausted) # "fetched"
    BY DEF AccessError
<1> QED BY <1>1, <1>2 DEF FileError, DirError

\* The phase starts, or is refused before it.
LEMMA StartStep == FetchInv /\ Start => FetchInv'
<1> SUFFICES ASSUME FetchInv, Start PROVE FetchInv'
    OBVIOUS
<1>1. CASE \E result \in {"cancelled", "refused"} : Return(result)
    BY <1>1, ReturnStep
<1>2. CASE /\ stage = "start" /\ stage' = "access" /\ dirs' = {NoName}
           /\ UNCHANGED <<sha, served, received, files>> /\ Stay /\ Reading
  <2>1. Chosen'
      BY <1>2 DEF Chosen, Served
  <2>2. received' \in Nat /\ received' <= MaxDownload
      BY <1>2 DEF FetchInv, Shape, Budget
  <2> QED BY <1>2, <2>1, <2>2, IntakeStep DEF Before
<1> QED BY <1>1, <1>2 DEF Start

\* The repository, the commit and the archive are asked for: the body that comes is of the commit.
LEMMA AccessStep == FetchInv /\ (Access \/ ResolveHead \/ Download) => FetchInv'
<1> SUFFICES ASSUME FetchInv, Access \/ ResolveHead \/ Download PROVE FetchInv'
    OBVIOUS
<1>1. CASE \E result \in {"cancelled", "refused"} : Return(result)
    BY <1>1, ReturnStep
<1>2. CASE /\ stage \in {"access", "head", "download"} /\ stage' \in {"head", "download", "body"}
           /\ Chosen' /\ UNCHANGED <<received, disk>> /\ Stay /\ Reading
  <2>1. received' \in Nat /\ received' <= MaxDownload /\ files' = files /\ dirs' = {NoName}
      BY <1>2 DEF FetchInv, Shape, Budget, Fresh, disk
  <2> QED BY <1>2, <2>1, IntakeStep DEF Before
<1>3. request \in Requests /\ head \in Shas /\ request.pin \in Shas \cup {NoSha, "malformed"}
    BY FetchAssumption DEF FetchInv, Shape
<1>4. ASSUME stage = "access", stage' = (IF request.pin = NoSha THEN "head" ELSE "download"),
             sha' = request.pin, request.pin # "malformed", UNCHANGED <<served, received, disk>>,
             Stay, Reading
      PROVE  FetchInv'
  <2>1. request' = request
      BY <1>4 DEF Stay
  <2>2. Chosen' /\ stage' \in {"head", "download"}
      BY <1>3, <1>4, <2>1 DEF Chosen, Served
  <2> QED BY <1>2, <1>4, <2>2
<1>5. ASSUME ResolveHead PROVE FetchInv'
  <2>1. stage = "head" /\ sha' = head /\ stage' = "download" /\ request' = request
      BY <1>5 DEF ResolveHead, Stay
  <2>2. request.pin = NoSha /\ NoSha \notin Shas
      BY <2>1, FetchAssumption DEF FetchInv, Chosen
  <2>3. Chosen'
      BY <1>3, <2>1, <2>2 DEF Chosen, Served
  <2> QED BY <1>2, <1>5, <2>1, <2>3 DEF ResolveHead
<1>6. ASSUME stage = "download", served' = TarballRef, stage' = "body",
             UNCHANGED <<sha, received, disk>>, Stay, Reading
      PROVE  FetchInv'
  <2>1. request' = request
      BY <1>6 DEF Stay
  <2>2. Chosen'
      BY <1>6, <2>1 DEF FetchInv, Chosen, Served, TarballRef
  <2> QED BY <1>2, <1>6, <2>2
<1> QED BY <1>1, <1>4, <1>5, <1>6 DEF Access, Download

\* Before the first member there is only the root.
LEMMA FirstMember ==
    ASSUME NEW members
    PROVE  FilesOf(members, 0) = NoFile /\ DirsOf(members, 0) = {NoName}
<1>1. \A type : Ones(members, 0, type) = {}
    BY DEF Ones
<1>2. Paths(members, 0) = {} /\ Folders(members, 0) = {}
    BY <1>1 DEF Paths, Folders
<1>3. FilesOf(members, 0) = NoFile
  <2> DEFINE g == [p \in Paths(members, 0) |-> members[Max(At(members, 0, p))].size]
  <2>1. g \in [{} -> {}]
      BY <1>2
  <2>2. NoFile \in [{} -> {}]
      BY DEF NoFile
  <2>3. \A h, k \in [{} -> {}] : h = k
      OBVIOUS
  <2>4. g = FilesOf(members, 0)
      BY DEF FilesOf
  <2>5. FilesOf(members, 0) \in [{} -> {}]
      BY <2>1, <2>4
  <2> QED BY <2>2, <2>3, <2>5
<1>4. UNION {Above(p) : p \in Paths(members, 0) \cup Folders(members, 0)} = {}
    BY <1>2
<1> QED BY <1>2, <1>3, <1>4 DEF DirsOf

\* The body is read within its bound, and extraction starts on an empty tree.
LEMMA BodyStep == FetchInv /\ ReadBounded => FetchInv'
<1> SUFFICES ASSUME FetchInv, ReadBounded PROVE FetchInv'
    OBVIOUS
<1>1. CASE \E result \in {"cancelled", "too_large"} : Return(result)
    BY <1>1, ReturnStep
<1>2. stage = "body" /\ served \in Shas /\ sha \in Shas /\ files = NoFile /\ dirs = {NoName}
      /\ next = 1 /\ pending = NoName
    BY DEF ReadBounded, FetchInv, Chosen, Served, Fresh
<1>3. Tar.packed \in Nat /\ IsArchive(Tar.members) /\ received \in Nat /\ MaxDownload \in Nat
    BY <1>2, ArchivesAre, FetchAssumption DEF FetchInv, Shape, Tar
<1>4. ASSUME NEW n \in 1 .. Tar.packed - received, ~(received + n > MaxDownload),
             received' = received + n, UNCHANGED <<stage, sha, served, disk>>, Stay, Reading
      PROVE  FetchInv'
  <2>1. received' \in Nat /\ received' <= MaxDownload /\ files' = files /\ dirs' = {NoName}
      BY <1>2, <1>3, <1>4 DEF disk
  <2>2. Chosen'
      BY <1>4 DEF FetchInv, Chosen, Stay
  <2> QED BY <1>2, <1>4, <2>1, <2>2, IntakeStep DEF Before
<1>5. ASSUME stage' = "extract", UNCHANGED <<sha, served, received, disk>>, Stay, Reading
      PROVE  FetchInv'
  <2>1. UNCHANGED <<repo, request, head, outcome, sha, served, received, files, dirs, next, left,
                    target, charged, entries, pending>>
      BY <1>5 DEF Stay, Reading, disk
  <2>2. Shape' /\ Chosen' /\ Fresh'
      BY <1>2, <1>5, <2>1 DEF FetchInv, Shape, Chosen, Fresh, Served
  <2>3. Budget'
      BY <2>1, BytesStay DEF FetchInv, Budget
  <2>4. Inside' /\ Recorded'
      BY <1>2, <1>5, <2>1 DEF FetchInv, Inside, Recorded
  <2>5. Extracted'
    <3>1. Members' = Members /\ Len(Members) \in Nat
        BY <1>3, <2>1 DEF Members, Tar, IsArchive
    <3>2. FilesOf(Members, next - 1) = NoFile /\ DirsOf(Members, next - 1) = {NoName}
        BY <1>2, FirstMember
    <3>3. PendingAt(Members, next) = NoName
        BY <1>2, NameIsPending
    <3>4. next' <= Len(Members') + 1 /\ pending' = PendingAt(Members', next')
          /\ files' = FilesOf(Members', next' - 1) /\ dirs' = DirsOf(Members', next' - 1)
        BY <1>2, <2>1, <3>1, <3>2, <3>3
    <3> QED BY <1>5, <3>4 DEF Extracted
  <2> QED BY <2>2, <2>3, <2>4, <2>5 DEF FetchInv
<1> QED BY <1>1, <1>4, <1>5 DEF ReadBounded

-------------------------------------------------------------------------------
(* Extraction.                                                                *)

\* Past the download there is an archive, and the member that is read is one of it.
LEMMA Reads ==
    ASSUME FetchInv, stage \in Served
    PROVE  /\ served \in Shas /\ sha = served /\ IsArchive(Members) /\ Len(Members) \in Nat
           /\ Member = Members[next]
           /\ next \in Nat \ {0} /\ next - 1 \in Nat /\ (next - 1) + 1 = next
           /\ next <= Len(Members) => Member \in [type : STRING, name : Seq(STRING), size : Nat]
<1>1. served \in Shas /\ sha = served /\ IsArchive(Members) /\ next \in Nat \ {0}
    BY ArchivesAre DEF FetchInv, Shape, Chosen, Members, Tar
<1>2. Len(Members) \in Nat /\ Member = Members[next]
    BY <1>1 DEF IsArchive, Member, Members
<1>3. next <= Len(Members) => Member \in [type : STRING, name : Seq(STRING), size : Nat]
  <2> DEFINE T == [type : STRING, name : Seq(STRING), size : Nat]
  <2>1. ASSUME NEW U, NEW m \in Seq(U), NEW k \in 1 .. Len(m) PROVE m[k] \in U
      OBVIOUS
  <2>2. Members \in Seq(T)
      BY <1>1 DEF IsArchive
  <2>3. next <= Len(Members) => next \in 1 .. Len(Members)
      BY <1>1, <1>2
  <2> HIDE DEF T
  <2>4. next <= Len(Members) => Members[next] \in T
      BY <2>1, <2>2, <2>3
  <2> QED BY <1>2, <2>4 DEF T
<1>4. next - 1 \in Nat /\ (next - 1) + 1 = next
    BY <1>1
<1> QED BY <1>1, <1>2, <1>3, <1>4

\* The name of a member that is opened, and where it goes.
LEMMA Names ==
    ASSUME FetchInv, stage = "extract", next <= Len(Members)
    PROVE  /\ Name \in Seq(STRING) /\ Joined(Name) = NameAt(Members, next)
           /\ Joined(Name) \in Seq(STRING)
           /\ JoinError(Name) = "none" => Proper(Joined(Name))
<1>1. /\ pending \in Seq(STRING) /\ pending = PendingAt(Members, next)
      /\ Member \in [type : STRING, name : Seq(STRING), size : Nat]
      /\ Member = Members[next] /\ next \in Nat \ {0}
    BY Reads DEF Served, FetchInv, Shape, Extracted
<1>2. Name \in Seq(STRING)
    BY <1>1 DEF Name
<1>3. Name = IF PendingAt(Members, next) # NoName THEN PendingAt(Members, next)
             ELSE Members[next].name
    BY <1>1 DEF Name
<1>4. NameAt(Members, next) =
         Joined(IF PendingAt(Members, next) # NoName THEN PendingAt(Members, next)
                ELSE Members[next].name)
    BY <1>1, NameIsPending
<1>5. Joined(Name) = NameAt(Members, next)
    BY <1>3, <1>4
<1> QED BY <1>2, <1>5, JoinedProper

\* What a member's header leaves alone.
LEMMA OpenKeeps ==
    ASSUME FetchInv, stage = "extract",
           NEW n \in Nat, NEW counted \in {0, 1}, NEW name \in Seq(STRING),
           next <= Len(Members), Open(n, counted, name), charged + n <= MaxTotal,
           entries + counted <= MaxFiles
    PROVE  /\ Chosen' /\ Fresh' /\ Recorded'
           /\ {received', left', charged', entries'} \subseteq Nat /\ next' = next
           /\ target' \in Seq(STRING) /\ pending' \in Seq(STRING)
           /\ repo' \in [Shas -> Archives] /\ head' \in Shas /\ request' \in Requests
           /\ stage' = "member" /\ Members' = Members /\ Member' = Member
           /\ received' <= MaxDownload /\ charged' <= MaxTotal /\ entries' <= MaxFiles
           /\ charged <= charged' /\ charged' = charged + n /\ entries' = entries + counted
           /\ left' = Member.size /\ target' = Joined(Name) /\ pending' = name
           /\ entries \in Nat /\ charged \in Nat
<1>1. /\ stage' = "member" /\ left' = Member.size /\ target' = Joined(Name)
      /\ charged' = charged + n /\ entries' = entries + counted /\ pending' = name
      /\ UNCHANGED <<sha, served, received, next, snap, repo, head, request, outcome>>
    BY DEF Open, Stay
<1>2. Chosen' /\ Fresh' /\ Recorded'
    BY <1>1 DEF FetchInv, Chosen, Fresh, Recorded, Served
<1>3. /\ {received, charged, entries} \subseteq Nat /\ received <= MaxDownload
      /\ repo \in [Shas -> Archives] /\ head \in Shas /\ request \in Requests
    BY DEF FetchInv, Shape, Budget
<1>4. Member.size \in Nat
    BY Reads DEF Served
<1>5. Joined(Name) \in Seq(STRING)
    BY Names
<1>6. Members' = Members /\ Member' = Member
    BY <1>1 DEF Members, Member, Tar
<1>7. {received', left', charged', entries'} \subseteq Nat /\ charged <= charged'
    BY <1>1, <1>3, <1>4
<1> QED BY <1>1, <1>2, <1>3, <1>5, <1>6, <1>7

\* A member that writes nothing, or not yet.
LEMMA OpenElse ==
    ASSUME FetchInv, stage = "extract", NEW counted \in {0, 1}, NEW name \in Seq(STRING),
           next <= Len(Members), Open(0, counted, name), entries + counted <= MaxFiles,
           UNCHANGED disk, Member.type \in {"dir", "name", "global", "other"},
           name = PendingAt(Members, next + 1), Member.type = "dir" => JoinError(Name) = "none"
    PROVE  FetchInv'
<1>1. charged + 0 <= MaxTotal /\ MaxTotal \in Nat
    BY FetchAssumption DEF FetchInv, Shape, Budget
<1>2. /\ Chosen' /\ Fresh' /\ Recorded'
      /\ {received', left', charged', entries'} \subseteq Nat /\ next' = next
      /\ target' \in Seq(STRING) /\ pending' \in Seq(STRING)
      /\ repo' \in [Shas -> Archives] /\ head' \in Shas /\ request' \in Requests
      /\ stage' = "member" /\ Members' = Members /\ Member' = Member
      /\ received' <= MaxDownload /\ charged' <= MaxTotal /\ entries' <= MaxFiles
      /\ charged' = charged + 0 /\ entries' = entries + counted
      /\ left' = Member.size /\ target' = Joined(Name) /\ pending' = name
      /\ entries \in Nat /\ charged \in Nat
    BY <1>1, OpenKeeps
<1>3. files' = files /\ dirs' = dirs
    BY DEF disk
<1>4. Shape'
    BY <1>2, <1>3 DEF FetchInv, Shape, Served
<1>5. Budget'
  <2>1. charged' = charged /\ entries <= entries' /\ Cardinality(DOMAIN files) <= entries
      BY <1>2 DEF FetchInv, Budget
  <2>2. Cardinality(DOMAIN files) \in Nat
      BY FS_CardinalityType DEF FetchInv, Shape
  <2>3. Cardinality(DOMAIN files) <= entries'
      BY <1>2, <2>1, <2>2
  <2> QED BY <1>2, <1>3, <2>1, <2>3, BytesStay DEF FetchInv, Budget
<1>6. Inside'
    BY <1>2, <1>3 DEF FetchInv, Inside
<1>7. Extracted'
  <2>1. files = FilesOf(Members, next - 1) /\ dirs = DirsOf(Members, next - 1)
      BY DEF FetchInv, Extracted
  <2>2. Member.type = "dir" => target' = NameAt(Members, next) /\ Proper(target')
      BY <1>2, Names
  <2>3. Member.size <= Member.size
      BY Reads DEF Served
  <2> QED BY <1>2, <1>3, <2>1, <2>2, <2>3 DEF Extracted
<1> QED BY <1>2, <1>4, <1>5, <1>6, <1>7 DEF FetchInv

\* A file is made, empty, and the directories above it.
LEMMA OpenFileStep ==
    ASSUME FetchInv, stage = "extract", next <= Len(Members), OpenFile
    PROVE  FetchInv'
<1> DEFINE q == Joined(Name)
           D == DOMAIN files
<1>1. CASE FileError # "none"
    BY <1>1, Reasons, ReturnStep DEF OpenFile
<1>2. CASE FileError = "none"
  <2>1. /\ Member.type = "file" /\ Open(Member.size, 1, NoName)
        /\ files' = [p \in D \cup {q} |-> IF p = q THEN 0 ELSE files[p]]
        /\ dirs' = dirs \cup Above(q)
      BY <1>2 DEF OpenFile
  <2>2. /\ next \in Nat \ {0} /\ next - 1 \in Nat /\ (next - 1) + 1 = next
        /\ Member = Members[next] /\ Member.size \in Nat
      BY Reads DEF Served
  <2>3. /\ ~(Member.size > MaxFile) /\ ~(charged + Member.size > MaxTotal)
        /\ ~(entries + 1 > MaxFiles) /\ JoinError(Name) = "none"
      BY <1>2 DEF FileError
  <2>4. /\ MaxFile \in Nat /\ MaxTotal \in Nat /\ MaxFiles \in Nat
        /\ charged \in Nat /\ entries \in Nat
      BY FetchAssumption DEF FetchInv, Shape
  <2>5. Member.size <= MaxFile /\ charged + Member.size <= MaxTotal /\ entries + 1 <= MaxFiles
      BY <2>2, <2>3, <2>4
  <2>6. /\ Chosen' /\ Fresh' /\ Recorded'
        /\ {received', left', charged', entries'} \subseteq Nat /\ next' = next
        /\ target' \in Seq(STRING) /\ pending' \in Seq(STRING)
        /\ repo' \in [Shas -> Archives] /\ head' \in Shas /\ request' \in Requests
        /\ stage' = "member" /\ Members' = Members /\ Member' = Member
        /\ received' <= MaxDownload /\ charged' <= MaxTotal /\ entries' <= MaxFiles
        /\ charged <= charged' /\ entries' = entries + 1
        /\ left' = Member.size /\ target' = q /\ pending' = NoName
    <3>1. NoName \in Seq(STRING)
        BY DEF NoName
    <3> QED BY <2>1, <2>2, <2>5, <3>1, OpenKeeps
  <2>7. q = NameAt(Members, next) /\ Proper(q)
      BY <2>3, Names
  <2>8. Counts(files, D)
      BY DEF Counts, FetchInv, Shape
  <2>9. /\ IsFiniteSet(DOMAIN files') /\ DOMAIN files' = D \cup {q}
        /\ files' \in [DOMAIN files' -> Nat]
        /\ Sum(files', DOMAIN files') = 0 + Sum(files, D \ {q})
        /\ Sum(files, D \ {q}) <= Sum(files, D)
        /\ {Sum(files, D), Sum(files, D \ {q})} \subseteq Nat
        /\ Cardinality(DOMAIN files') <= Cardinality(D) + 1
        /\ {Cardinality(D), Cardinality(DOMAIN files')} \subseteq Nat
    <3>1. PICK f, g, r : f = files /\ g = files' /\ r = q
        OBVIOUS
    <3>2. g = [p \in DOMAIN f \cup {r} |-> IF p = r THEN 0 ELSE f[p]]
        BY <2>1, <3>1
    <3>3. Counts(f, DOMAIN f)
        BY <2>8, <3>1
    <3>4. g \in [DOMAIN g -> Nat] /\ g[r] = 0
        BY <3>2, <3>3 DEF Counts
    <3>5. Put(f, r, g)
        BY <3>2, <3>4 DEF Put
    <3>6. Takes(f, r, g)
        BY <3>3, <3>5, FilePut
    <3> QED BY <3>1, <3>2, <3>4, <3>6 DEF Takes
  <2> HIDE DEF q
  <2>10. Shape'
      BY <2>2, <2>6, <2>9 DEF Shape, Served
  <2>11. Budget'
    <3>1. Bytes <= charged /\ Cardinality(D) <= entries /\ \A p \in D : files[p] <= MaxFile
        BY DEF FetchInv, Budget
    <3>2. Bytes' <= charged' /\ Cardinality(DOMAIN files') <= entries'
      <4>1. Bytes = Sum(files, D) /\ Bytes' = Sum(files', DOMAIN files')
          BY BytesIsSum
      <4>2. charged' \in Nat
          BY <2>6
      <4> HIDE DEF D
      <4>3. Bytes' <= charged'
          BY <2>4, <2>6, <2>9, <3>1, <4>1, <4>2
      <4>4. Cardinality(DOMAIN files') <= entries'
          BY <2>4, <2>6, <2>9, <3>1
      <4> QED BY <4>3, <4>4
    <3>3. \A p \in DOMAIN files' : files'[p] <= MaxFile
        BY <2>1, <2>4, <2>9, <3>1
    <3> QED BY <2>6, <3>2, <3>3 DEF Budget
  <2>12. Inside'
    <3>1. \A p \in D \cup dirs : Proper(p) /\ Above(p) \subseteq dirs
        BY DEF FetchInv, Inside
    <3>2. \A p \in Above(q) : Proper(p) /\ Above(p) \subseteq Above(q)
        BY <2>7, AboveProper
    <3>3. \A p \in D \cup {q} \cup dirs \cup Above(q) :
              Proper(p) /\ Above(p) \subseteq dirs \cup Above(q)
        BY <2>7, <3>1, <3>2
    <3>4. \A p \in DOMAIN files' \cup dirs' : Proper(p) /\ Above(p) \subseteq dirs'
        BY <2>1, <2>9, <3>3
    <3> QED BY <2>6, <3>4 DEF Inside
  <2>13. Extracted'
    <3> DEFINE n == next - 1
               F == FilesOf(Members, n)
    <3>1. files = F /\ dirs = DirsOf(Members, n) /\ D = Paths(Members, n)
      <4>1. files = F /\ dirs = DirsOf(Members, n)
          BY DEF FetchInv, Extracted
      <4> QED BY <4>1 DEF FilesOf
    <3>2. /\ FilesOf(Members, next) =
               [p \in Paths(Members, n) \cup {q} |-> IF p = q THEN Member.size ELSE F[p]]
          /\ DirsOf(Members, next) = DirsOf(Members, n) \cup Above(q)
      <4>1. n \in Nat /\ n + 1 = next
          BY <2>2
      <4> HIDE DEF F, n, D
      <4>2. Members[n + 1].type = "file" /\ Members[n + 1].size = Member.size
            /\ NameAt(Members, n + 1) = q
          BY <2>1, <2>2, <2>7, <4>1
      <4>3. /\ FilesOf(Members, n + 1) =
                 [p \in Paths(Members, n) \cup {NameAt(Members, n + 1)} |->
                    IF p = NameAt(Members, n + 1) THEN Members[n + 1].size
                    ELSE FilesOf(Members, n)[p]]
            /\ DirsOf(Members, n + 1) = DirsOf(Members, n) \cup Above(NameAt(Members, n + 1))
          BY <4>1, <4>2, FileAdded
      <4> QED BY <4>1, <4>2, <4>3 DEF F
    <3> HIDE DEF F, n
    <3>3. dirs' = DirsOf(Members, next)
        BY <2>1, <3>1, <3>2
    <3>4. files' = [FilesOf(Members, next) EXCEPT ![q] = Member.size - Member.size]
      <4>1. Member.size - Member.size = 0
          BY <2>2
      <4> HIDE DEF D
      <4>2. files' = [p \in Paths(Members, n) \cup {q} |-> IF p = q THEN 0 ELSE F[p]]
          BY <2>1, <3>1
      <4> QED BY <4>1, <4>2, <3>2
    <3>5. PendingAt(Members, next + 1) = NoName
      <4>1. Used(Members, next)
          BY <2>1, <2>2 DEF Used
      <4> QED BY <2>2, <4>1, PendingNext
    <3>6. Member.size <= Member.size
        BY <2>2
    <3> QED BY <2>1, <2>5, <2>6, <2>7, <2>9, <3>3, <3>4, <3>5, <3>6 DEF Extracted
  <2> QED BY <2>6, <2>10, <2>11, <2>12, <2>13 DEF FetchInv
<1> QED BY <1>1, <1>2

\* A member's header is accepted or refused, or the archive is read.
LEMMA MemberStep == FetchInv /\ NextMember => FetchInv'
<1> SUFFICES ASSUME FetchInv, NextMember PROVE FetchInv'
    OBVIOUS
<1>1. CASE \E result \in {"cancelled", "refused"} : Return(result)
    BY <1>1, ReturnStep
<1>2. stage = "extract" /\ Len(Tar.members) = Len(Members)
    BY DEF NextMember, Members
<1>3. /\ next \in Nat \ {0} /\ next - 1 \in Nat /\ Len(Members) \in Nat /\ Member = Members[next]
      /\ IsArchive(Members) /\ pending \in Seq(STRING)
    BY <1>2, Reads DEF Served, FetchInv, Shape
<1>4. /\ next <= Len(Members) + 1 /\ pending = PendingAt(Members, next)
      /\ files = FilesOf(Members, next - 1) /\ dirs = DirsOf(Members, next - 1)
    BY <1>2 DEF FetchInv, Extracted
<1>5. PendingAt(Members, next + 1) =
          IF Used(Members, next) THEN NoName
          ELSE IF Member.type = "name" /\ Member.name # NoName THEN Member.name ELSE pending
    BY <1>3, <1>4, PendingNext
<1>6. /\ MaxFiles \in Nat /\ entries \in Nat /\ entries + 0 <= MaxFiles /\ NoName \in Seq(STRING)
      /\ 0 \in {0, 1} /\ 1 \in {0, 1}
    BY FetchAssumption DEF FetchInv, Shape, Budget, NoName
<1>7. ASSUME next <= Len(Members), OpenDir PROVE FetchInv'
  <2>1. CASE DirError # "none"
      BY <2>1, <1>7, Reasons, ReturnStep DEF OpenDir
  <2>2. CASE DirError = "none"
    <3>1. Member.type = "dir" /\ Open(0, 1, NoName) /\ UNCHANGED disk
        BY <1>7, <2>2 DEF OpenDir
    <3>2. JoinError(Name) = "none" /\ entries + 1 <= MaxFiles
        BY <1>6, <2>2 DEF DirError
    <3>3. NoName = PendingAt(Members, next + 1)
        BY <1>3, <1>5, <3>1 DEF Used
    <3> QED BY <1>2, <1>6, <1>7, <3>1, <3>2, <3>3, OpenElse
  <2> QED BY <2>1, <2>2
<1>8. ASSUME next <= Len(Members), OpenName PROVE FetchInv'
  <2>1. CASE Return("too_large")
      BY <2>1, ReturnStep
  <2>2. CASE ~Return("too_large")
    <3> DEFINE name == IF Member.name # NoName THEN Member.name ELSE pending
    <3>1. Member.type = "name" /\ Open(0, 0, name) /\ UNCHANGED disk
        BY <1>8, <2>2 DEF OpenName
    <3>2. name = PendingAt(Members, next + 1)
        BY <1>3, <1>5, <3>1 DEF Used
    <3>3. name \in Seq(STRING)
        BY <1>2, <1>3, <1>8, Reads DEF Served
    <3> HIDE DEF name
    <3> QED BY <1>2, <1>6, <1>8, <3>1, <3>2, <3>3, OpenElse
  <2> QED BY <2>1, <2>2
<1>9. ASSUME next <= Len(Members), OpenSkipped PROVE FetchInv'
  <2> DEFINE name == IF Member.type = "other" THEN NoName ELSE pending
  <2>1. Member.type \in {"global", "other"} /\ Open(0, 0, name) /\ UNCHANGED disk
      BY <1>9 DEF OpenSkipped
  <2>2. name = PendingAt(Members, next + 1)
      BY <1>3, <1>5, <2>1 DEF Used
  <2>3. name \in Seq(STRING)
      BY <1>3, <1>6
  <2> HIDE DEF name
  <2> QED BY <1>2, <1>6, <1>9, <2>1, <2>2, <2>3, OpenElse
<1>10. ASSUME next > Len(Members), stage' = "snapshot", UNCHANGED <<sha, served, received, disk>>,
              Stay, Reading
       PROVE  FetchInv'
  <2>1. UNCHANGED <<repo, request, head, outcome, sha, served, received, files, dirs, next, left,
                    target, charged, entries, pending>>
      BY <1>10 DEF Stay, Reading, disk
  <2>2. Shape' /\ Chosen' /\ Fresh'
      BY <1>2, <1>10, <2>1 DEF FetchInv, Shape, Chosen, Fresh, Served
  <2>3. Budget'
      BY <2>1, BytesStay DEF FetchInv, Budget
  <2>4. Inside' /\ Recorded'
      BY <1>2, <1>10, <2>1 DEF FetchInv, Inside, Recorded
  <2>5. Extracted'
    <3>1. Members' = Members
        BY <2>1 DEF Members, Tar
    <3>2. next - 1 = Len(Members)
        BY <1>3, <1>4, <1>10
    <3> QED BY <1>4, <1>10, <2>1, <3>1, <3>2 DEF Extracted
  <2> QED BY <2>2, <2>3, <2>4, <2>5 DEF FetchInv
<1> QED BY <1>1, <1>2, <1>7, <1>8, <1>9, <1>10, OpenFileStep DEF NextMember

\* A chunk: as many bytes are charged as are written.
LEMMA ChunkStep == FetchInv /\ StreamChunk => FetchInv'
<1> SUFFICES ASSUME FetchInv, StreamChunk PROVE FetchInv'
    OBVIOUS
<1> DEFINE n == IF left < Chunk THEN left ELSE Chunk
           D == DOMAIN files
<1>1. CASE \E result \in {"cancelled", "refused", "too_large"} : Return(result)
    BY <1>1, ReturnStep
<1>2. CASE ~\E result \in {"cancelled", "refused", "too_large"} : Return(result)
  <2>1. /\ stage = "member" /\ charged + n <= MaxTotal
        /\ left' = left - n /\ charged' = charged + n
        /\ files' = IF Member.type = "file" THEN [files EXCEPT ![target] = @ + n] ELSE files
        /\ UNCHANGED <<stage, sha, served, received, next, target, entries, pending, dirs, snap,
                       repo, head, request, outcome>>
      BY <1>2 DEF StreamChunk, Stay
  <2>2. /\ next <= Len(Members) /\ pending = PendingAt(Members, next + 1)
        /\ Member.type \in {"file", "dir", "name", "global", "other"}
        /\ left <= Member.size
        /\ Member.type \in {"file", "dir"} => target = NameAt(Members, next) /\ Proper(target)
        /\ Member.type = "file" =>
              /\ Member.size <= MaxFile /\ target \in DOMAIN files
              /\ files = [FilesOf(Members, next) EXCEPT ![target] = Member.size - left]
              /\ dirs = DirsOf(Members, next)
        /\ Member.type # "file" =>
              files = FilesOf(Members, next - 1) /\ dirs = DirsOf(Members, next - 1)
      BY <2>1 DEF FetchInv, Extracted
  <2>3. /\ left \in Nat /\ charged \in Nat /\ entries \in Nat /\ Member.size \in Nat
        /\ MaxTotal \in Nat /\ MaxFile \in Nat /\ Chunk \in Nat
        /\ files \in [D -> Nat] /\ IsFiniteSet(D)
      BY <2>1, <2>2, Reads, FetchAssumption DEF Served, FetchInv, Shape
  <2>4. n \in Nat /\ n <= left
      BY <2>3
  <2> HIDE DEF n
  <2>5. left' \in Nat /\ charged' \in Nat /\ charged' <= MaxTotal /\ charged <= charged'
        /\ left' <= Member.size
    <3>1. /\ left' = left - n /\ left <= Member.size
          /\ charged' = charged + n /\ charged + n <= MaxTotal
        BY <2>1, <2>2
    <3> QED BY <2>3, <2>4, <3>1
  <2>6. Members' = Members /\ Member' = Member
      BY <2>1 DEF Members, Member, Tar
  <2>7. Chosen' /\ Fresh' /\ Recorded'
      BY <2>1 DEF FetchInv, Chosen, Fresh, Recorded, Served
  <2>8. CASE Member.type # "file"
    <3>1. files' = files /\ dirs' = dirs
        BY <2>1, <2>8
    <3>2. Shape'
        BY <2>1, <2>5, <3>1 DEF FetchInv, Shape
    <3>3. Budget'
      <4>1. Bytes \in Nat
          BY <2>3, BytesIsSum, SumNat DEF Counts
      <4>2. Bytes' = Bytes /\ Bytes <= charged
          BY <3>1, BytesStay DEF FetchInv, Budget
      <4>3. Bytes' <= charged'
          BY <2>3, <2>5, <4>1, <4>2
      <4> QED BY <2>1, <2>5, <3>1, <4>3 DEF FetchInv, Budget
    <3>4. Inside'
        BY <2>1, <3>1 DEF FetchInv, Inside
    <3>5. Extracted'
        BY <2>1, <2>2, <2>5, <2>6, <2>8, <3>1 DEF Extracted
    <3> QED BY <2>7, <3>2, <3>3, <3>4, <3>5 DEF FetchInv
  <2>9. CASE Member.type = "file"
    <3>1. files' = [files EXCEPT ![target] = files[target] + n] /\ target \in D
          /\ dirs' = dirs /\ target' = target
        BY <2>1, <2>2, <2>9
    <3>2. target \in DOMAIN FilesOf(Members, next) /\ files[target] = Member.size - left
        BY <2>2, <2>9
    <3>3. files[target] + n = Member.size - left' /\ files[target] + n <= MaxFile
          /\ files[target] \in Nat /\ files[target] + n \in Nat
      <4>1. left' = left - n /\ left <= Member.size /\ Member.size <= MaxFile
          BY <2>1, <2>2, <2>9
      <4> QED BY <2>3, <2>4, <2>5, <3>1, <3>2, <4>1
    <3>4. files' = [FilesOf(Members, next) EXCEPT ![target] = Member.size - left']
      <4>1. files' = [files EXCEPT ![target] = Member.size - left']
          BY <3>1, <3>3
      <4> QED BY <2>2, <2>9, <4>1
    <3>5. /\ DOMAIN files' = D /\ files' \in [DOMAIN files' -> Nat]
          /\ files'[target] = files[target] + n
          /\ \A p \in D \ {target} : files'[p] = files[p]
        BY <2>3, <3>1, <3>3
    <3>6. Takes(files, target, files')
      <4>1. PICK f, g, q : f = files /\ g = files' /\ q = target
          OBVIOUS
      <4>2. DOMAIN f \cup {q} = DOMAIN f
          BY <3>1, <4>1
      <4>3. Put(f, q, g)
          BY <3>5, <4>1, <4>2 DEF Put
      <4>4. Counts(f, DOMAIN f)
          BY <2>3, <4>1 DEF Counts
      <4>5. Takes(f, q, g)
          BY <4>3, <4>4, FilePut
      <4> QED BY <4>1, <4>5
    <3>7. Shape'
        BY <2>1, <2>3, <2>5, <3>5 DEF FetchInv, Shape
    <3>8. Budget'
      <4>1. Bytes = Sum(files, D) /\ Bytes' = Sum(files', DOMAIN files') /\ Bytes <= charged
          BY BytesIsSum DEF FetchInv, Budget
      <4>2. /\ Sum(files', DOMAIN files') = files'[target] + Sum(files, D \ {target})
            /\ Sum(files, D) = files[target] + Sum(files, D \ {target})
            /\ Sum(files, D) \in Nat /\ Sum(files, D \ {target}) \in Nat
          BY <3>1, <3>6 DEF Takes
      <4>3. Bytes' = Bytes + n /\ Bytes \in Nat
          BY <2>4, <3>3, <3>5, <4>1, <4>2
      <4>4. Bytes' <= charged'
          BY <2>1, <2>3, <2>4, <4>1, <4>3
      <4>5. \A p \in DOMAIN files' : files'[p] <= MaxFile
          BY <3>3, <3>5 DEF FetchInv, Budget
      <4> QED BY <2>1, <2>5, <3>5, <4>4, <4>5 DEF FetchInv, Budget
    <3>9. Inside'
        BY <2>1, <3>5 DEF FetchInv, Inside
    <3>10. Extracted'
      <4>1. target' \in DOMAIN files' /\ dirs' = DirsOf(Members, next)
          BY <2>2, <2>9, <3>1, <3>5
      <4> QED BY <2>1, <2>2, <2>5, <2>6, <2>9, <3>1, <3>4, <4>1 DEF Extracted
    <3> QED BY <2>7, <3>7, <3>8, <3>9, <3>10 DEF FetchInv
  <2> QED BY <2>8, <2>9
<1> QED BY <1>1, <1>2

\* A member is behind: what it added is there.
LEMMA EndStep == FetchInv /\ EndMember => FetchInv'
<1> SUFFICES ASSUME FetchInv, EndMember PROVE FetchInv'
    OBVIOUS
<1> DEFINE made == IF Member.type = "dir" THEN Above(target) \cup {target} ELSE {}
<1>1. CASE Return("refused")
    BY <1>1, ReturnStep
<1>2. CASE ~Return("refused")
  <2>1. /\ stage = "member" /\ left = 0 /\ next' = next + 1 /\ stage' = "extract"
        /\ dirs' = dirs \cup made
        /\ UNCHANGED <<sha, served, received, left, target, charged, entries, pending, files, snap,
                       repo, head, request, outcome>>
      BY <1>2 DEF EndMember, Stay
  <2>2. /\ next <= Len(Members) /\ pending = PendingAt(Members, next + 1)
        /\ Member.type \in {"file", "dir"} => target = NameAt(Members, next) /\ Proper(target)
        /\ Member.type = "file" =>
              /\ files = [FilesOf(Members, next) EXCEPT ![target] = Member.size - left]
              /\ dirs = DirsOf(Members, next)
        /\ Member.type # "file" =>
              files = FilesOf(Members, next - 1) /\ dirs = DirsOf(Members, next - 1)
      BY <2>1 DEF FetchInv, Extracted
  <2>3. PICK k : k = next - 1
      OBVIOUS
  <2>4. /\ k \in Nat /\ k + 1 = next /\ next \in Nat \ {0} /\ Len(Members) \in Nat
        /\ Member = Members[k + 1] /\ Member.size \in Nat
      BY <2>1, <2>2, <2>3, Reads DEF Served
  <2>5. files' = FilesOf(Members, next) /\ dirs' = DirsOf(Members, next)
    <3>1. CASE Member.type = "file"
      <4> DEFINE q == NameAt(Members, k + 1)
                 F == FilesOf(Members, next)
      <4>1. F = [p \in Paths(Members, k) \cup {q} |->
                    IF p = q THEN Members[k + 1].size ELSE FilesOf(Members, k)[p]]
        <5>1. Members[k + 1].type = "file"
            BY <2>4, <3>1
        <5>2. FilesOf(Members, k + 1) =
                  [p \in Paths(Members, k) \cup {q} |->
                    IF p = q THEN Members[k + 1].size ELSE FilesOf(Members, k)[p]]
          <6>1. k \in Nat
              BY <2>4
          <6> QED BY <5>1, <6>1, FileAdded
        <5> QED BY <2>4, <5>2
      <4>2. target = q
          BY <2>2, <2>4, <3>1
      <4>3. F[target] = Member.size
          BY <2>4, <4>1, <4>2
      <4>5. F = [p \in DOMAIN F |-> F[p]]
          BY <4>1
      <4> HIDE DEF F, q
      <4>6. Member.size - left = Member.size
          BY <2>1, <2>4
      <4>7. files = F
          BY <2>2, <3>1, <4>3, <4>5, <4>6 DEF F
      <4> QED BY <2>1, <2>2, <3>1, <4>7 DEF F
    <3>2. CASE Member.type = "dir"
      <4>1. /\ FilesOf(Members, k + 1) = FilesOf(Members, k)
            /\ DirsOf(Members, k + 1) = DirsOf(Members, k) \cup Above(NameAt(Members, k + 1))
                                            \cup {NameAt(Members, k + 1)}
          BY <2>4, <3>2, FolderAdded
      <4>2. made = Above(NameAt(Members, k + 1)) \cup {NameAt(Members, k + 1)}
          BY <2>2, <2>4, <3>2
      <4> HIDE DEF made
      <4> QED BY <2>1, <2>2, <2>3, <2>4, <3>2, <4>1, <4>2
    <3>3. CASE Member.type \notin {"file", "dir"}
      <4>1. /\ FilesOf(Members, k + 1) = FilesOf(Members, k)
            /\ DirsOf(Members, k + 1) = DirsOf(Members, k)
          BY <2>4, <3>3, NothingAdded
      <4> QED BY <2>1, <2>2, <2>3, <2>4, <3>3, <4>1
    <3> QED BY <3>1, <3>2, <3>3
  <2>6. Shape' /\ Chosen' /\ Fresh' /\ Recorded'
      BY <2>1, <2>4 DEF FetchInv, Shape, Chosen, Fresh, Recorded, Served
  <2>7. Budget'
      BY <2>1, BytesStay DEF FetchInv, Budget
  <2>8. Inside'
    <3>1. \A p \in DOMAIN files \cup dirs : Proper(p) /\ Above(p) \subseteq dirs
        BY DEF FetchInv, Inside
    <3>2. \A p \in made : Proper(p) /\ Above(p) \subseteq made
      <4>1. Member.type = "dir" => Proper(target)
          BY <2>2
      <4> QED BY <4>1, AboveProper
    <3> HIDE DEF made
    <3> QED BY <2>1, <3>1, <3>2 DEF Inside
  <2>9. Extracted'
    <3>1. Members' = Members
        BY <2>1 DEF Members, Tar
    <3>2. next' <= Len(Members) + 1 /\ next' - 1 = next
        BY <2>1, <2>2, <2>4
    <3> QED BY <2>1, <2>2, <2>5, <3>1, <3>2 DEF Extracted
  <2> QED BY <2>6, <2>7, <2>8, <2>9 DEF FetchInv
<1> QED BY <1>1, <1>2

\* The tree is recorded as it is.
LEMMA SnapshotStep == FetchInv /\ Snapshot => FetchInv'
<1> SUFFICES ASSUME FetchInv, Snapshot PROVE FetchInv'
    OBVIOUS
<1>1. CASE Return("too_large")
    BY <1>1, ReturnStep
<1>2. CASE ~Return("too_large")
  <2>1. /\ stage = "snapshot" /\ stage' = "done" /\ outcome' = "fetched"
        /\ snap' = [commit |-> sha, count |-> Cardinality(DOMAIN files), size |-> Bytes,
                    directories |-> dirs \ {NoName},
                    manifests |-> {p \in DOMAIN files : Manifest(p)},
                    sensitive |-> {p \in DOMAIN files : Sensitive(p)},
                    opened |-> {p \in DOMAIN files : ~Sensitive(p)}]
        /\ UNCHANGED <<repo, head, request, sha, served, received, next, left, target, charged,
                       entries, pending, files, dirs>>
      BY <1>2 DEF Snapshot, disk
  <2>2. Shape' /\ Chosen' /\ Fresh' /\ Extracted'
      BY <2>1 DEF FetchInv, Shape, Chosen, Fresh, Extracted, Served
  <2>3. Budget' /\ Bytes' = Bytes
      BY <2>1, BytesStay DEF FetchInv, Budget
  <2>4. Inside'
      BY <2>1 DEF FetchInv, Inside
  <2>5. Recorded'
    <3>1. /\ sha \in Shas /\ (request.pin \in Shas => sha = request.pin) /\ served = sha
          /\ Members = repo[sha].members
        BY <2>1 DEF FetchInv, Chosen, Served, Members, Tar
    <3>2. files = FilesOf(Members, Len(Members)) /\ dirs = DirsOf(Members, Len(Members))
        BY <2>1 DEF FetchInv, Extracted
    <3>3. /\ snap'.commit = sha /\ snap'.count = Cardinality(DOMAIN files) /\ snap'.size = Bytes
          /\ snap'.directories = dirs \ {NoName}
          /\ snap'.opened = {p \in DOMAIN files : p \notin snap'.sensitive}
        BY <2>1
    <3> QED BY <2>1, <2>3, <3>1, <3>2, <3>3 DEF Recorded
  <2> QED BY <2>2, <2>3, <2>4, <2>5 DEF FetchInv
<1> QED BY <1>1, <1>2

\* The pipeline is through: the tree is removed.
LEMMA ReleaseStep == FetchInv /\ Release => FetchInv'
<1> SUFFICES ASSUME FetchInv, Release PROVE FetchInv'
    OBVIOUS
<1>1. /\ stage = "done" /\ files' = NoFile /\ dirs' = {}
      /\ UNCHANGED <<stage, sha, served, received, repo, head, request, outcome, next, left, target,
                     charged, entries, pending>>
    BY DEF Release, Stay, Reading
<1>2. Shape' /\ Inside' /\ Recorded'
    BY <1>1, NoFileHolds DEF FetchInv, Shape, Inside, Recorded
<1>3. Chosen' /\ Fresh' /\ Extracted'
    BY <1>1 DEF Chosen, Fresh, Extracted, Served
<1>4. Budget'
  <2>1. \A p \in DOMAIN files' : files'[p] <= MaxFile
      BY <1>1, NoFileHolds
  <2>2. Bytes' = 0 /\ Cardinality(DOMAIN files') = 0
      BY <1>1, NoFileHolds, BytesIsSum
  <2>3. received <= MaxDownload /\ entries <= MaxFiles /\ charged <= MaxTotal
        /\ entries \in Nat /\ charged \in Nat
      BY DEF FetchInv, Budget, Shape
  <2> QED BY <1>1, <2>1, <2>2, <2>3 DEF Budget
<1> QED BY <1>2, <1>3, <1>4 DEF FetchInv

\* Every step preserves the invariant.
LEMMA NextHolds == FetchInv /\ [Next]_vars => FetchInv'
<1> SUFFICES ASSUME FetchInv, [Next]_vars PROVE FetchInv'
    OBVIOUS
<1>1. head \in Shas
    BY DEF FetchInv, Shape
<1>2. CASE UNCHANGED vars
    BY <1>1, <1>2, QuietStep DEF vars, disk
<1>3. CASE Cancelled
    BY <1>1, <1>3, QuietStep DEF Cancelled, Reading, disk
<1>4. CASE Push
    BY <1>4, QuietStep DEF Push, Reading, disk
<1>5. CASE HttpFails \/ Dropped
    BY <1>5, ReturnStep DEF HttpFails, Dropped
<1>6. CASE \E status \in {401, 403, 404, 429, 500} : Refused(status)
    BY <1>6, Reasons, ReturnStep DEF Refused
<1> QED BY <1>2, <1>3, <1>4, <1>5, <1>6, StartStep, AccessStep, BodyStep, MemberStep, ChunkStep,
           EndStep, SnapshotStep, ReleaseStep DEF Next

\* The invariant holds throughout.
LEMMA Holds == Spec => []FetchInv
BY InitHolds, NextHolds, PTL DEF Spec

-------------------------------------------------------------------------------
(* What is fetched.                                                           *)

\* Whatever an archive holds and its headers claim, no ceiling of the disk or of
\* memory is passed at any moment (read_bounded, charge, extract_tarball_with_cancel).
THEOREM CeilingsHold == Spec => []FetchIsBounded
<1>1. FetchInv => FetchIsBounded
  <2> SUFFICES ASSUME FetchInv PROVE FetchIsBounded
      OBVIOUS
  <2>1. /\ Cardinality(DOMAIN files) \in Nat /\ entries \in Nat /\ MaxFiles \in Nat
        /\ charged \in Nat /\ MaxTotal \in Nat
      BY FetchAssumption, FS_CardinalityType DEF FetchInv, Shape
  <2>2. Bytes \in Nat
      BY BytesIsSum, SumNat DEF FetchInv, Shape, Counts
  <2>3. /\ Cardinality(DOMAIN files) <= entries /\ entries <= MaxFiles
        /\ Bytes <= charged /\ charged <= MaxTotal
      BY DEF FetchInv, Budget
  <2>4. Cardinality(DOMAIN files) <= MaxFiles /\ Bytes <= MaxTotal
      BY <2>1, <2>2, <2>3
  <2> QED BY <2>4 DEF FetchInv, Budget, FetchIsBounded
<1> QED BY <1>1, Holds, PTL

\* A phase that fails leaves nothing, and no name of an archive leads out of the
\* directory it is extracted to (TempDirGuard, safe_join).
THEOREM FailuresLeaveNothing == Spec => []NothingIsLeft
<1>1. FetchInv => NothingIsLeft
  <2>1. FetchInv => Inside
      BY DEF FetchInv
  <2>2. Inside => NothingIsLeft
    <3> SUFFICES ASSUME Inside PROVE NothingIsLeft
        OBVIOUS
    <3>1. \A p \in DOMAIN files \cup dirs : Proper(p) /\ Above(p) \subseteq dirs
        BY DEF Inside
    <3>2. \A p \in DOMAIN files \cup dirs : \A k \in 1 .. Len(p) : p[k] \notin {"..", "/", "."}
        BY <3>1 DEF Proper
    <3>3. stage = "done" /\ outcome # "fetched" => DOMAIN files = {} /\ dirs = {}
        BY DEF Inside
    <3> QED BY <3>1, <3>2, <3>3 DEF NothingIsLeft
  <2> QED BY <2>1, <2>2
<1> QED BY <1>1, Holds, PTL

\* The tree that is analyzed is that of one commit, as its archive read as a whole
\* defines it, whatever order its members come in and wherever the branch moves
\* (fetch_repo_with_cancel, extract_tarball_with_cancel, snapshot_repo).
THEOREM TreeOfOneCommit == Spec => []TreeIsTheCommit
<1>1. FetchInv => TreeIsTheCommit
  <2> SUFFICES ASSUME FetchInv, stage = "done", outcome = "fetched", dirs # {}
               PROVE  TreeIsTheCommit
      BY DEF TreeIsTheCommit
  <2>1. /\ files = FilesOf(repo[snap.commit].members, Len(repo[snap.commit].members))
        /\ dirs = DirsOf(repo[snap.commit].members, Len(repo[snap.commit].members))
        /\ request.pin \in Shas => snap.commit = request.pin
        /\ snap.count = Cardinality(DOMAIN files) /\ snap.size = Bytes
        /\ snap.directories = dirs \ {NoName}
        /\ snap.opened = {p \in DOMAIN files : p \notin snap.sensitive}
      BY DEF FetchInv, Recorded
  <2>2. TreeOf(repo[snap.commit]) = [files |-> files, dirs |-> dirs]
      BY <2>1, TreeIsOfAll
  <2> QED BY <2>1, <2>2 DEF TreeIsTheCommit
<1> QED BY <1>1, Holds, PTL

\* After the flag is set, the first read stops the phase: nothing more is held or
\* written (the checks of read_bounded and stream_exact).
THEOREM CancelIsObeyed == Spec => CancelStops
<1> DEFINE Grows == cancel => received' <= received /\ Bytes' <= Bytes
<1>1. FetchInv /\ [Next]_vars => [Grows]_vars
  <2> SUFFICES ASSUME FetchInv, Next, cancel PROVE received' <= received /\ Bytes' <= Bytes
      OBVIOUS
  <2>1. received \in Nat /\ Bytes \in Nat
      BY BytesIsSum, SumNat DEF FetchInv, Shape, Counts
  <2>2. ASSUME NEW result, Return(result) PROVE received' <= received /\ Bytes' <= Bytes
    <3>1. received' = received /\ files' = NoFile
        BY <2>2 DEF Return
    <3> QED BY <2>1, <3>1, NoFileHolds, BytesIsSum
  <2>3. ASSUME received' = received, files' = files PROVE received' <= received /\ Bytes' <= Bytes
      BY <2>1, <2>3, BytesStay
  <2>4. CASE Start
      BY <2>2, <2>4 DEF Start
  <2>5. CASE HttpFails \/ Dropped \/ \E status \in {401, 403, 404, 429, 500} : Refused(status)
      BY <2>2, <2>5 DEF HttpFails, Dropped, Refused
  <2>6. CASE Access \/ ResolveHead \/ Download
      BY <2>2, <2>3, <2>6 DEF Access, ResolveHead, Download, disk
  <2>7. CASE ReadBounded
      BY <2>2, <2>3, <2>7 DEF ReadBounded, disk
  <2>8. CASE NextMember
      BY <2>2, <2>8 DEF NextMember
  <2>9. CASE StreamChunk
      BY <2>2, <2>9 DEF StreamChunk, MayRead
  <2>10. CASE EndMember
      BY <2>2, <2>3, <2>10 DEF EndMember
  <2>11. CASE Snapshot
      BY <2>2, <2>3, <2>11 DEF Snapshot, disk
  <2>12. CASE Release
    <3>1. received' = received /\ files' = NoFile
        BY <2>12 DEF Release
    <3> QED BY <2>1, <3>1, NoFileHolds, BytesIsSum
  <2>13. CASE Cancelled \/ Push
      BY <2>3, <2>13 DEF Cancelled, Push, disk
  <2> QED BY <2>4, <2>5, <2>6, <2>7, <2>8, <2>9, <2>10, <2>11, <2>12, <2>13 DEF Next
<1> QED BY <1>1, Holds, PTL DEF Spec, CancelStops
===============================================================================
