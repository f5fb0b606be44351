-------------------------- MODULE EmbedPace_proofs --------------------------
(***************************************************************************)
(* Proofs about EmbedPace, for every number of callers and texts, every    *)
(* batch size, quota and length of a minute that its assumptions allow.    *)
(*                                                                         *)
(* The properties are about sums: of the tokens of a call by their age,    *)
(* and of the calls.  A sum is a fold, whose recursive function is a       *)
(* CHOOSE to the prover, and the induction rules of the library take       *)
(* operators; so the first part proves by hand, from the well-foundedness  *)
(* of the subsets of a finite set, that the fold exists and what it obeys. *)
(*                                                                         *)
(* The inductive invariant is about one call at a time: since it last lost *)
(* an answer, its batches are at least a pause apart.  A minute then holds *)
(* two of them at most, and the quota bounds what all have taken.          *)
(***************************************************************************)
EXTENDS EmbedPace, FiniteSetTheorems, TLAPS

-----------------------------------------------------------------------------
(* Sums over finite sets                                                   *)

Pick(S) == CHOOSE x \in S : TRUE

\* What the fold picks from a set is in it.
LEMMA PickIn == ASSUME NEW S, S # {} PROVE Pick(S) \in S
BY DEF Pick

\* Induction over the subsets of a finite set, as a fact about sets.
LEMMA SetInduction ==
  ASSUME NEW S, IsFiniteSet(S), NEW F,
         \A s \in SUBSET S : (\A t \in SUBSET s : t # s => t \in F) => s \in F
  PROVE  S \in F
<1> DEFINE T == {s \in FiniteSubsetsOf(S) : s \notin F}
<1>1. SUFFICES ASSUME T # {} PROVE FALSE
  <2>1. S \in FiniteSubsetsOf(S)
    BY DEF FiniteSubsetsOf
  <2> QED
    BY <1>1, <2>1
<1>2. T \subseteq FiniteSubsetsOf(S)
  OBVIOUS
<1> HIDE DEF T
<1>3. PICK s \in T : \A t \in T : ~(<<t, s>> \in StrictSubsetOrdering(S))
  BY <1>1, <1>2, FS_StrictSubsetOrderingWellFounded, WFMin
<1>4. s \in SUBSET S /\ IsFiniteSet(s) /\ s \notin F
  BY DEF T, FiniteSubsetsOf
<1>5. ASSUME NEW t \in SUBSET s, t # s PROVE t \in F
  <2>1. t \in FiniteSubsetsOf(S)
    BY <1>4, FS_Subset DEF FiniteSubsetsOf
  <2>2. <<t, s>> \in StrictSubsetOrdering(S)
    BY <1>4, <1>5 DEF StrictSubsetOrdering
  <2> QED
    BY <1>3, <2>1, <2>2 DEF T
<1> QED
  BY <1>4, <1>5

\* The equation of the fold behind SumFunctionOnSet.
IsFold(it, f, S) ==
  it = [s \in SUBSET S |-> IF s = {} THEN 0 ELSE f[Pick(s)] + it[s \ {Pick(s)}]]

\* A sum is the value at S of the function that the equation defines.
LEMMA SumIsFold ==
  ASSUME NEW f, NEW S
  PROVE  SumFunctionOnSet(f, S) = (CHOOSE it : IsFold(it, f, S))[S]
BY DEF SumFunctionOnSet, FoldFunctionOnSet, MapThenFoldSet, IsFold, Pick

\* The sum over a finite set: 0, or the term that is picked and the rest.
Unfolds(f, s) ==
  SumFunctionOnSet(f, s) =
    IF s = {} THEN 0 ELSE f[Pick(s)] + SumFunctionOnSet(f, s \ {Pick(s)})

LEMMA FoldEquation ==
  ASSUME NEW f, NEW S, NEW it, IsFold(it, f, S), NEW s \in SUBSET S
  PROVE  it[s] = IF s = {} THEN 0 ELSE f[Pick(s)] + it[s \ {Pick(s)}]
BY DEF IsFold

\* A fold over S sums every subset whose own subsets are known to unfold.
LEMMA FoldSums ==
  ASSUME NEW f, NEW S, IsFiniteSet(S), NEW it, IsFold(it, f, S),
         NEW s \in SUBSET S, \A t \in SUBSET s : Unfolds(f, t)
  PROVE  it[s] = SumFunctionOnSet(f, s)
<1> DEFINE F == {t \in SUBSET S : it[t] = SumFunctionOnSet(f, t)}
<1>1. ASSUME NEW u \in SUBSET s, \A t \in SUBSET u : t # u => t \in F
      PROVE  u \in F
  <2>1. u \in SUBSET S /\ Unfolds(f, u)
    OBVIOUS
  <2>2. it[u] = IF u = {} THEN 0 ELSE f[Pick(u)] + it[u \ {Pick(u)}]
    BY <2>1, FoldEquation
  <2>3. u # {} => u \ {Pick(u)} \in F
    BY <1>1, PickIn
  <2> QED
    BY <2>1, <2>2, <2>3 DEF Unfolds
<1>2. IsFiniteSet(s)
  BY FS_Subset
<1> HIDE DEF F
<1>3. s \in F
  BY <1>1, <1>2, SetInduction
<1> QED
  BY <1>3 DEF F

\* Such a function exists, so the sum obeys the equation.
LEMMA SumUnfolds ==
  ASSUME NEW f, NEW S, IsFiniteSet(S)
  PROVE  Unfolds(f, S)
<1> DEFINE F == {s \in SUBSET S : Unfolds(f, s)}
<1>1. ASSUME NEW s \in SUBSET S, \A t \in SUBSET s : t # s => t \in F
      PROVE  s \in F
  <2> DEFINE g == [t \in SUBSET s |-> IF t = {} THEN 0
                                      ELSE f[Pick(t)] + SumFunctionOnSet(f, t \ {Pick(t)})]
             it == CHOOSE it : IsFold(it, f, s)
  <2>1. IsFiniteSet(s)
    BY FS_Subset
  <2>2. ASSUME NEW t \in SUBSET s, t # {}
        PROVE  g[t \ {Pick(t)}] = SumFunctionOnSet(f, t \ {Pick(t)})
    <3> DEFINE u == t \ {Pick(t)}
    <3>1. u \in SUBSET s /\ u # s
      BY <2>2, PickIn
    <3>2. Unfolds(f, u)
      BY <1>1, <3>1
    <3> HIDE DEF u
    <3> QED
      BY <3>1, <3>2 DEF u, Unfolds
  <2>3. IsFold(g, f, s)
    <3>1. \A t \in SUBSET s : t # {} => t \ {Pick(t)} \in SUBSET s
      OBVIOUS
    <3> QED
      BY <2>2, <3>1 DEF IsFold
  <2>4. IsFold(it, f, s)
    <3> HIDE DEF g
    <3> QED
      BY <2>3
  <2>5. SumFunctionOnSet(f, s) = it[s]
    BY SumIsFold
  <2> HIDE DEF g, it
  <2>6. it[s] = IF s = {} THEN 0 ELSE f[Pick(s)] + it[s \ {Pick(s)}]
    BY <2>4, FoldEquation
  <2>7. CASE s # {}
    <3> DEFINE u == s \ {Pick(s)}
    <3>1. u \in SUBSET s /\ u # s
      BY <2>7, PickIn
    <3>2. \A t \in SUBSET u : Unfolds(f, t)
      BY <1>1, <3>1
    <3> HIDE DEF u
    <3>3. it[u] = SumFunctionOnSet(f, u)
      BY <2>1, <2>4, <3>1, <3>2, FoldSums
    <3> QED
      BY <2>5, <2>6, <2>7, <3>3 DEF u, Unfolds
  <2>8. CASE s = {}
    BY <2>5, <2>6, <2>8 DEF Unfolds
  <2> QED
    BY <2>7, <2>8
<1> HIDE DEF F
<1>2. S \in F
  BY <1>1, SetInduction
<1> QED
  BY <1>2 DEF F

-----------------------------------------------------------------------------
(* What the sums obey                                                      *)

LEMMA SumEmpty == ASSUME NEW f PROVE SumFunctionOnSet(f, {}) = 0
BY FS_EmptySet, SumUnfolds DEF Unfolds

LEMMA SumPicked ==
  ASSUME NEW f, NEW S, IsFiniteSet(S), S # {}
  PROVE  SumFunctionOnSet(f, S) = f[Pick(S)] + SumFunctionOnSet(f, S \ {Pick(S)})
BY SumUnfolds DEF Unfolds

\* The sum of naturals is one.
LEMMA SumNat ==
  ASSUME NEW f, NEW S, IsFiniteSet(S), \A x \in S : f[x] \in Nat
  PROVE  SumFunctionOnSet(f, S) \in Nat
<1> DEFINE F == {s \in SUBSET S : SumFunctionOnSet(f, s) \in Nat}
<1>1. ASSUME NEW s \in SUBSET S, \A t \in SUBSET s : t # s => t \in F
      PROVE  s \in F
  <2>1. CASE s = {}
    BY <2>1, SumEmpty
  <2>2. CASE s # {}
    <3>1. SumFunctionOnSet(f, s) = f[Pick(s)] + SumFunctionOnSet(f, s \ {Pick(s)})
      BY <2>2, FS_Subset, SumPicked
    <3>2. Pick(s) \in s
      BY <2>2, PickIn
    <3>3. s \ {Pick(s)} \in F
      BY <1>1, <3>2
    <3> QED
      BY <3>1, <3>2, <3>3
  <2> QED
    BY <2>1, <2>2
<1> HIDE DEF F
<1>2. S \in F
  BY <1>1, SetInduction
<1> QED
  BY <1>2 DEF F

\* Any term can be taken out, not only the one that is picked.
LEMMA SumApart ==
  ASSUME NEW f, NEW S, IsFiniteSet(S), \A y \in S : f[y] \in Nat, NEW x \in S
  PROVE  SumFunctionOnSet(f, S) = f[x] + SumFunctionOnSet(f, S \ {x})
<1> DEFINE Apart(s, y) == SumFunctionOnSet(f, s) = f[y] + SumFunctionOnSet(f, s \ {y})
           F == {s \in SUBSET S : \A y \in s : Apart(s, y)}
<1>1. ASSUME NEW s \in SUBSET S, \A t \in SUBSET s : t # s => t \in F
      PROVE  s \in F
  <2> SUFFICES ASSUME NEW y \in s PROVE Apart(s, y)
    OBVIOUS
  <2> DEFINE p == Pick(s)
  <2>1. p \in s /\ IsFiniteSet(s)
    BY PickIn, FS_Subset
  <2>2. Apart(s, p)
    BY <2>1, SumPicked
  <2> HIDE DEF p
  <2>3. CASE y # p
    <3>1. Apart(s \ {p}, y)
      BY <1>1, <2>1, <2>3
    <3>2. Apart(s \ {y}, p)
      BY <1>1, <2>1, <2>3
    <3>3. (s \ {p}) \ {y} = (s \ {y}) \ {p}
      OBVIOUS
    <3>4. SumFunctionOnSet(f, (s \ {p}) \ {y}) \in Nat
      BY <2>1, FS_Subset, SumNat
    <3>5. f[p] \in Nat /\ f[y] \in Nat
      BY <2>1
    <3> QED
      BY <2>2, <3>1, <3>2, <3>3, <3>4, <3>5
  <2> QED
    BY <2>2, <2>3
<1> HIDE DEF F
<1>2. S \in F
  BY <1>1, SetInduction
<1> QED
  BY <1>2 DEF F

\* The sum of the sums.
LEMMA SumPlus ==
  ASSUME NEW f, NEW g, NEW h, NEW S, IsFiniteSet(S),
         \A x \in S : f[x] \in Nat /\ g[x] \in Nat /\ h[x] = f[x] + g[x]
  PROVE  SumFunctionOnSet(h, S) = SumFunctionOnSet(f, S) + SumFunctionOnSet(g, S)
<1> DEFINE F == {s \in SUBSET S : SumFunctionOnSet(h, s) =
                                    SumFunctionOnSet(f, s) + SumFunctionOnSet(g, s)}
<1>1. ASSUME NEW s \in SUBSET S, \A t \in SUBSET s : t # s => t \in F
      PROVE  s \in F
  <2>1. CASE s = {}
    BY <2>1, SumEmpty
  <2>2. CASE s # {}
    <3>1. IsFiniteSet(s) /\ Pick(s) \in s
      BY <2>2, FS_Subset, PickIn
    <3>2. /\ SumFunctionOnSet(f, s) = f[Pick(s)] + SumFunctionOnSet(f, s \ {Pick(s)})
          /\ SumFunctionOnSet(g, s) = g[Pick(s)] + SumFunctionOnSet(g, s \ {Pick(s)})
          /\ SumFunctionOnSet(h, s) = h[Pick(s)] + SumFunctionOnSet(h, s \ {Pick(s)})
      BY <2>2, <3>1, SumPicked
    <3>3. s \ {Pick(s)} \in F
      BY <1>1, <3>1
    <3>4. /\ SumFunctionOnSet(f, s \ {Pick(s)}) \in Nat
          /\ SumFunctionOnSet(g, s \ {Pick(s)}) \in Nat
      BY <3>1, FS_Subset, SumNat
    <3> QED
      BY <3>1, <3>2, <3>3, <3>4
  <2> QED
    BY <2>1, <2>2
<1> HIDE DEF F
<1>2. S \in F
  BY <1>1, SetInduction
<1> QED
  BY <1>2 DEF F

\* Sums compare term by term.
LEMMA SumLeq ==
  ASSUME NEW f, NEW g, NEW S, IsFiniteSet(S),
         \A x \in S : f[x] \in Nat /\ g[x] \in Nat /\ f[x] <= g[x]
  PROVE  SumFunctionOnSet(f, S) <= SumFunctionOnSet(g, S)
<1> DEFINE more == [x \in S |-> g[x] - f[x]]
<1>1. \A x \in S : more[x] \in Nat /\ g[x] = f[x] + more[x]
  OBVIOUS
<1> HIDE DEF more
<1>2. SumFunctionOnSet(g, S) = SumFunctionOnSet(f, S) + SumFunctionOnSet(more, S)
  BY <1>1, SumPlus
<1>3. SumFunctionOnSet(f, S) \in Nat /\ SumFunctionOnSet(more, S) \in Nat
  BY <1>1, SumNat
<1> QED
  BY <1>2, <1>3

\* Equal terms, equal sums.
LEMMA SumSame ==
  ASSUME NEW f, NEW g, NEW S, IsFiniteSet(S),
         \A x \in S : f[x] \in Nat /\ g[x] = f[x]
  PROVE  SumFunctionOnSet(g, S) = SumFunctionOnSet(f, S)
<1>1. /\ SumFunctionOnSet(f, S) <= SumFunctionOnSet(g, S)
      /\ SumFunctionOnSet(g, S) <= SumFunctionOnSet(f, S)
  BY SumLeq
<1>2. SumFunctionOnSet(f, S) \in Nat /\ SumFunctionOnSet(g, S) \in Nat
  BY SumNat
<1> QED
  BY <1>1, <1>2

LEMMA SumZero ==
  ASSUME NEW f, NEW S, IsFiniteSet(S), \A x \in S : f[x] = 0
  PROVE  SumFunctionOnSet(f, S) = 0
<1>1. SumFunctionOnSet(f, S) = SumFunctionOnSet(f, S) + SumFunctionOnSet(f, S)
  BY SumPlus
<1>2. SumFunctionOnSet(f, S) \in Nat
  BY SumNat
<1>3. \A n \in Nat : n = n + n => n = 0
  OBVIOUS
<1> QED
  BY <1>1, <1>2, <1>3

\* No term is larger than the sum.
LEMMA TermLeq ==
  ASSUME NEW f, NEW S, IsFiniteSet(S), \A y \in S : f[y] \in Nat, NEW x \in S
  PROVE  f[x] <= SumFunctionOnSet(f, S)
<1>1. SumFunctionOnSet(f, S) = f[x] + SumFunctionOnSet(f, S \ {x})
  BY SumApart
<1>2. SumFunctionOnSet(f, S \ {x}) \in Nat
  BY FS_Subset, SumNat
<1> QED
  BY <1>1, <1>2

\* Two terms are the sum where the others are 0.
LEMMA TwoTerms ==
  ASSUME NEW f, NEW S, IsFiniteSet(S), NEW B \in Nat, \A y \in S : f[y] \in 0 .. B,
         \A x, y, z \in S : x # y /\ y # z /\ x # z => f[x] = 0 \/ f[y] = 0 \/ f[z] = 0
  PROVE  SumFunctionOnSet(f, S) <= 2 * B
<1>1. \A y \in S : f[y] \in Nat
  OBVIOUS
<1>2. CASE \A x \in S : f[x] = 0
  BY <1>2, SumZero
<1>3. ASSUME NEW x \in S, f[x] # 0 PROVE SumFunctionOnSet(f, S) <= 2 * B
  <2> DEFINE R == S \ {x}
  <2>1. IsFiniteSet(R) /\ \A y \in R : f[y] \in Nat
    BY <1>1, FS_Subset
  <2>2. SumFunctionOnSet(f, S) = f[x] + SumFunctionOnSet(f, R)
    BY <1>1, SumApart
  <2>3. CASE \A y \in R : f[y] = 0
    <3>1. SumFunctionOnSet(f, R) = 0
      BY <2>1, <2>3, SumZero
    <3> QED
      BY <2>2, <3>1
  <2>4. ASSUME NEW y \in R, f[y] # 0 PROVE SumFunctionOnSet(f, R) <= B
    <3>1. SumFunctionOnSet(f, R) = f[y] + SumFunctionOnSet(f, R \ {y})
      BY <2>1, SumApart
    <3>2. \A z \in R \ {y} : f[z] = 0
      BY <1>3, <2>4
    <3>3. IsFiniteSet(R \ {y})
      BY <2>1, FS_Subset
    <3>4. SumFunctionOnSet(f, R \ {y}) = 0
      BY <3>2, <3>3, SumZero
    <3> QED
      BY <3>1, <3>4
  <2>5. SumFunctionOnSet(f, R) \in Nat
    BY <2>1, SumNat
  <2> QED
    BY <2>2, <2>3, <2>4, <2>5
<1> QED
  BY <1>2, <1>3

\* Likewise with one.
LEMMA OneTerm ==
  ASSUME NEW f, NEW S, IsFiniteSet(S), NEW B \in Nat, \A y \in S : f[y] \in 0 .. B,
         \A x, y \in S : x # y => f[x] = 0 \/ f[y] = 0
  PROVE  SumFunctionOnSet(f, S) <= B
<1>1. CASE \A x \in S : f[x] = 0
  BY <1>1, SumZero
<1>2. ASSUME NEW x \in S, f[x] # 0 PROVE SumFunctionOnSet(f, S) <= B
  <2>1. SumFunctionOnSet(f, S) = f[x] + SumFunctionOnSet(f, S \ {x})
    BY SumApart
  <2>2. SumFunctionOnSet(f, S \ {x}) = 0
    BY <1>2, FS_Subset, SumZero
  <2> QED
    BY <2>1, <2>2
<1> QED
  BY <1>1, <1>2

-----------------------------------------------------------------------------
(* Tokens, ages and their sums                                             *)

\* What the assumptions say of the constants and of what is computed from them.
LEMMA Sizes ==
  /\ Minute \in Nat \ {0} /\ MAX_ATTEMPTS \in Nat \ {0} /\ Ceiling \in Nat
  /\ EMBEDDING_BATCH_SIZE \in Nat \ {0} /\ TOKENS_PER_CHUNK_ESTIMATE \in Nat \ {0}
  /\ BatchTokens \in Nat
  /\ Pause \in Nat \ {0}
  /\ Backoff \in 0 .. Pause
  /\ 2 * Pause >= Minute /\ 2 * BatchTokens <= Ceiling
<1>1. /\ Minute \in Nat \ {0} /\ MAX_ATTEMPTS \in Nat \ {0} /\ Ceiling \in Nat
      /\ EMBEDDING_BATCH_SIZE \in Nat \ {0} /\ TOKENS_PER_CHUNK_ESTIMATE \in Nat \ {0}
      /\ EMBEDDING_TPM \in Nat \ {0} /\ Backoff \in 0 .. Pause
  BY SizesAssumption
<1>2. BatchTokens \in Nat
  BY <1>1 DEF BatchTokens
<1>3. Pause \in Nat
  <2>1. BatchTokens * Minute \in Nat
    BY <1>1, <1>2
  <2> QED
    BY <1>1, <2>1 DEF Pause
<1> QED
  BY <1>1, <1>2, <1>3, PaceAssumption

LEMMA AgesFinite == IsFiniteSet(Ages)
BY Sizes, FS_Interval DEF Ages

LEMMA AgeZero == 0 \in Ages
BY Sizes DEF Ages

LEMMA MinOfTwo ==
  ASSUME NEW a \in Int, NEW b \in Int
  PROVE  Min({a, b}) = IF a <= b THEN a ELSE b
<1>1. \E x \in {a, b} : \A y \in {a, b} : x <= y
  OBVIOUS
<1>2. Min({a, b}) \in {a, b} /\ \A y \in {a, b} : Min({a, b}) <= y
  BY <1>1 DEF Min
<1> QED
  BY <1>2

LEMMA ProductLeq ==
  ASSUME NEW m \in Nat, NEW n \in Nat, m <= n, NEW k \in Nat
  PROVE  m * k \in Nat /\ m * k <= n * k
OBVIOUS

\* A batch has a text at least, and no more than are left or fit.
LEMMA BatchType ==
  ASSUME TypeOK, NEW c \in Calls
  PROVE  /\ Batch(c) \in 1 .. EMBEDDING_BATCH_SIZE
         /\ results[c] + Batch(c) <= Texts[c]
         /\ Tokens(c) \in 0 .. BatchTokens
<1>1. Texts[c] - results[c] \in Nat \ {0}
  BY SizesAssumption DEF TypeOK
<1>2. Batch(c) \in 1 .. EMBEDDING_BATCH_SIZE /\ Batch(c) <= Texts[c] - results[c]
  BY <1>1, Sizes, MinOfTwo DEF Batch
<1>3. Tokens(c) \in Nat /\ Tokens(c) <= BatchTokens
  BY <1>2, Sizes, ProductLeq DEF Tokens, BatchTokens
<1> QED
  BY <1>2, <1>3, Sizes, SizesAssumption DEF TypeOK

\* Token counts by age.
Usage == [Ages -> Nat]

LEMMA TotalOnAges ==
  ASSUME NEW f \in Usage
  PROVE  Total(f) = SumFunctionOnSet(f, Ages) /\ Total(f) \in Nat
<1>1. Total(f) = SumFunctionOnSet(f, Ages)
  BY DEF Total, SumFunction, Usage
<1>2. SumFunctionOnSet(f, Ages) \in Nat
  BY AgesFinite, SumNat DEF Usage
<1> QED
  BY <1>1, <1>2

LEMMA AgeLeqTotal ==
  ASSUME NEW f \in Usage, NEW a \in Ages
  PROVE  f[a] <= Total(f)
BY AgesFinite, TermLeq, TotalOnAges DEF Usage

LEMMA TotalUnused == Unused \in Usage /\ Total(Unused) = 0
<1>1. Unused \in Usage /\ \A a \in Ages : Unused[a] = 0
  BY DEF Unused, Usage
<1> QED
  BY <1>1, AgesFinite, SumZero, TotalOnAges

\* A call that ends leaves its tokens to the earlier ones.
LEMMA TotalPlus ==
  ASSUME NEW f \in Usage, NEW g \in Usage
  PROVE  /\ [a \in Ages |-> f[a] + g[a]] \in Usage
         /\ Total([a \in Ages |-> f[a] + g[a]]) = Total(f) + Total(g)
<1> DEFINE h == [a \in Ages |-> f[a] + g[a]]
<1>1. \A a \in Ages : f[a] \in Nat /\ g[a] \in Nat /\ h[a] = f[a] + g[a]
  BY DEF Usage
<1>2. h \in Usage
  BY <1>1 DEF Usage
<1> HIDE DEF h
<1>3. SumFunctionOnSet(h, Ages) = SumFunctionOnSet(f, Ages) + SumFunctionOnSet(g, Ages)
  BY <1>1, AgesFinite, SumPlus
<1>4. Total(h) = Total(f) + Total(g)
  BY <1>2, <1>3, TotalOnAges
<1> QED
  BY <1>2, <1>4 DEF h

\* What is taken now is as old as it can be new.
LEMMA TotalTaken ==
  ASSUME NEW f \in Usage, NEW n \in Nat
  PROVE  /\ [f EXCEPT ![0] = @ + n] \in Usage
         /\ Total([f EXCEPT ![0] = @ + n]) = Total(f) + n
<1> DEFINE g == [f EXCEPT ![0] = @ + n]
<1>1. g \in Usage /\ g[0] = f[0] + n /\ \A a \in Ages \ {0} : g[a] = f[a]
  BY AgeZero DEF Usage
<1>2. \A a \in Ages : f[a] \in Nat /\ g[a] \in Nat
  BY <1>1 DEF Usage
<1> HIDE DEF g
<1>3. SumFunctionOnSet(f, Ages) = f[0] + SumFunctionOnSet(f, Ages \ {0})
  BY <1>2, AgesFinite, AgeZero, SumApart
<1>4. SumFunctionOnSet(g, Ages) = g[0] + SumFunctionOnSet(g, Ages \ {0})
  BY <1>2, AgesFinite, AgeZero, SumApart
<1>5. IsFiniteSet(Ages \ {0})
  BY AgesFinite, FS_Subset
<1>6. SumFunctionOnSet(g, Ages \ {0}) = SumFunctionOnSet(f, Ages \ {0})
  BY <1>1, <1>2, <1>5, SumSame
<1>7. SumFunctionOnSet(f, Ages \ {0}) \in Nat /\ f[0] \in Nat
  BY <1>2, <1>5, AgeZero, SumNat
<1>8. Total(g) = Total(f) + n
  BY <1>1, <1>3, <1>4, <1>6, <1>7, TotalOnAges
<1> QED
  BY <1>1, <1>8 DEF g

\* Induction over the naturals, as a fact about sets.
LEMMA NatSets ==
  ASSUME NEW T \in SUBSET Nat, 0 \in T, \A n \in T : n + 1 \in T
  PROVE  Nat \subseteq T
<1> DEFINE U == Nat \ T
<1>1. SUFFICES ASSUME U # {} PROVE FALSE
  OBVIOUS
<1>2. U \subseteq Nat
  OBVIOUS
<1>3. PICK m \in U : \A n \in U : ~(<<n, m>> \in OpToRel(<, Nat))
  <2> HIDE DEF U
  <2> QED
    BY <1>1, <1>2, NatLessThanWellFounded, WFMin
<1>4. m \in Nat /\ m # 0 /\ m - 1 \in Nat /\ m - 1 \notin T
  OBVIOUS
<1>5. <<m - 1, m>> \in OpToRel(<, Nat)
  BY <1>4 DEF OpToRel
<1> QED
  BY <1>3, <1>4, <1>5

\* A tick moves the tokens and drops those that are a minute old.
LEMMA TotalOlder ==
  ASSUME NEW f \in Usage
  PROVE  Older(f) \in Usage /\ Total(Older(f)) <= Total(f)
<1> DEFINE g == Older(f)
           T == {n \in Nat : n < Minute =>
                   SumFunctionOnSet(g, 0 .. n) = SumFunctionOnSet(f, 0 .. n - 1)}
<1>1. /\ g \in Usage /\ g[0] = 0
      /\ \A n \in Nat : n + 1 < Minute => g[n + 1] = f[n]
  BY Sizes DEF Older, Usage, Ages
<1>2. \A a \in Ages : f[a] \in Nat /\ g[a] \in Nat
  BY <1>1 DEF Usage
<1> HIDE DEF g
<1>3. 0 \in T
  <2>1. 0 .. 0 = {0} /\ 0 .. 0 - 1 = {}
    OBVIOUS
  <2>2. SumFunctionOnSet(g, {0}) = 0
    BY <1>1, FS_Singleton, SumZero
  <2>3. SumFunctionOnSet(f, {}) = 0
    BY SumEmpty
  <2> QED
    BY <2>1, <2>2, <2>3
<1>4. ASSUME NEW n \in T PROVE n + 1 \in T
  <2> SUFFICES ASSUME n + 1 < Minute
               PROVE  SumFunctionOnSet(g, 0 .. n + 1) = SumFunctionOnSet(f, 0 .. n)
    OBVIOUS
  <2> DEFINE A == 0 .. n + 1
             B == 0 .. n
             D == 0 .. n - 1
  <2>1. n \in Nat /\ SumFunctionOnSet(g, B) = SumFunctionOnSet(f, D)
    BY Sizes
  <2> HIDE DEF T
  <2>2. A \ {n + 1} = B /\ n + 1 \in A
    BY <2>1
  <2>3. B \ {n} = D /\ n \in B
    BY <2>1
  <2>4. A \subseteq Ages /\ B \subseteq Ages
    BY <2>1, Sizes DEF Ages
  <2> HIDE DEF A, B, D
  <2>5. IsFiniteSet(A) /\ IsFiniteSet(B)
    BY <2>4, AgesFinite, FS_Subset
  <2>6. SumFunctionOnSet(g, A) = g[n + 1] + SumFunctionOnSet(g, B)
    <3>1. \A a \in A : g[a] \in Nat
      BY <1>2, <2>4
    <3> QED
      BY <2>2, <2>5, <3>1, SumApart
  <2>7. SumFunctionOnSet(f, B) = f[n] + SumFunctionOnSet(f, D)
    <3>1. \A a \in B : f[a] \in Nat
      BY <1>2, <2>4
    <3> QED
      BY <2>3, <2>5, <3>1, SumApart
  <2>8. g[n + 1] = f[n]
    BY <1>1, <2>1
  <2> QED
    BY <2>1, <2>6, <2>7, <2>8 DEF A, B
<1>5. Minute - 1 \in T
  <2>1. T \in SUBSET Nat
    OBVIOUS
  <2> HIDE DEF T
  <2> QED
    BY <1>3, <1>4, <2>1, NatSets, Sizes
<1> DEFINE last == Minute - 1
<1>6. /\ 0 .. last = Ages /\ 0 .. last - 1 = Ages \ {last}
      /\ last \in Ages /\ last < Minute
  BY Sizes DEF Ages
<1>7. SumFunctionOnSet(g, 0 .. last) = SumFunctionOnSet(f, 0 .. last - 1)
  BY <1>5, <1>6
<1> HIDE DEF T, last
<1>8. SumFunctionOnSet(f, Ages) = f[last] + SumFunctionOnSet(f, Ages \ {last})
  BY <1>2, <1>6, AgesFinite, SumApart
<1>9. SumFunctionOnSet(f, Ages \ {last}) \in Nat /\ f[last] \in Nat
  <2>1. IsFiniteSet(Ages \ {last})
    BY AgesFinite, FS_Subset
  <2> QED
    BY <1>2, <1>6, <2>1, SumNat
<1>10. SumFunctionOnSet(g, Ages) <= SumFunctionOnSet(f, Ages)
  <2>1. SumFunctionOnSet(g, Ages) = SumFunctionOnSet(f, Ages \ {last})
    BY <1>6, <1>7, Zenon
  <2> QED
    BY <1>8, <1>9, <2>1
<1>11. Total(g) = SumFunctionOnSet(g, Ages) /\ Total(f) = SumFunctionOnSet(f, Ages)
  BY <1>1, TotalOnAges
<1> QED
  BY <1>1, <1>10, <1>11 DEF g

\* What the calls of u have used of the last minute.
Spent(u) == SumFunction([c \in Calls |-> Total(u[c])])
Usages == [Calls -> Usage]

LEMMA SpentOnCalls ==
  ASSUME NEW u \in Usages
  PROVE  /\ Spent(u) = SumFunctionOnSet([c \in Calls |-> Total(u[c])], Calls)
         /\ Spent(u) \in Nat
<1> DEFINE t == [c \in Calls |-> Total(u[c])]
<1>1. \A c \in Calls : t[c] \in Nat
  BY TotalOnAges DEF Usages
<1>2. Spent(u) = SumFunctionOnSet(t, DOMAIN t) /\ DOMAIN t = Calls
  BY DEF Spent, SumFunction
<1> HIDE DEF t
<1>3. SumFunctionOnSet(t, Calls) \in Nat
  BY <1>1, CallsAssumption, SumNat
<1> QED
  BY <1>2, <1>3 DEF t

\* The calls but c, with c or without.
SpentBeside(u, c) == SumFunctionOnSet([d \in Calls |-> Total(u[d])], Calls \ {c})

\* What c has used, and what the others have.
LEMMA SpentApart ==
  ASSUME NEW u \in Usages, NEW c \in Calls
  PROVE  /\ Spent(u) = Total(u[c]) + SpentBeside(u, c)
         /\ SpentBeside(u, c) \in Nat /\ Total(u[c]) \in Nat
<1> DEFINE t == [d \in Calls |-> Total(u[d])]
<1>1. (\A d \in Calls : t[d] \in Nat) /\ t[c] = Total(u[c])
  BY TotalOnAges DEF Usages
<1>2. Spent(u) = SumFunctionOnSet(t, Calls)
  BY SpentOnCalls
<1>3. SpentBeside(u, c) = SumFunctionOnSet(t, Calls \ {c})
  BY DEF SpentBeside
<1> HIDE DEF t
<1>4. SumFunctionOnSet(t, Calls) = t[c] + SumFunctionOnSet(t, Calls \ {c})
  BY <1>1, CallsAssumption, SumApart
<1>5. IsFiniteSet(Calls \ {c})
  BY CallsAssumption, FS_Subset
<1>6. SumFunctionOnSet(t, Calls \ {c}) \in Nat
  BY <1>1, <1>5, SumNat
<1> QED
  BY <1>1, <1>2, <1>3, <1>4, <1>6

\* What c uses leaves the others alone.
LEMMA SpentBesideSame ==
  ASSUME NEW u \in Usages, NEW c \in Calls, NEW g \in Usage
  PROVE  /\ [u EXCEPT ![c] = g] \in Usages
         /\ Spent([u EXCEPT ![c] = g]) = Total(g) + SpentBeside(u, c)
<1> DEFINE v == [u EXCEPT ![c] = g]
           t == [d \in Calls |-> Total(u[d])]
           w == [d \in Calls |-> Total(v[d])]
<1>1. v \in Usages /\ v[c] = g
  BY DEF Usages
<1>2. \A d \in Calls \ {c} : t[d] \in Nat /\ w[d] = t[d]
  BY TotalOnAges DEF Usages
<1>3. SpentBeside(v, c) = SumFunctionOnSet(w, Calls \ {c})
  BY DEF SpentBeside
<1>4. SpentBeside(u, c) = SumFunctionOnSet(t, Calls \ {c})
  BY DEF SpentBeside
<1> HIDE DEF t, w, v
<1>5. IsFiniteSet(Calls \ {c})
  BY CallsAssumption, FS_Subset
<1>6. SpentBeside(v, c) = SpentBeside(u, c)
  BY <1>2, <1>3, <1>4, <1>5, SumSame
<1>7. Spent(v) = Total(g) + SpentBeside(u, c)
  BY <1>1, <1>6, SpentApart
<1> QED
  BY <1>1, <1>7 DEF v

\* A tick makes nobody use more.
LEMMA SpentOlder ==
  ASSUME NEW u \in Usages
  PROVE  /\ [c \in Calls |-> Older(u[c])] \in Usages
         /\ Spent([c \in Calls |-> Older(u[c])]) <= Spent(u)
<1> DEFINE v == [c \in Calls |-> Older(u[c])]
           t == [d \in Calls |-> Total(u[d])]
           w == [d \in Calls |-> Total(v[d])]
<1>1. v \in Usages
  BY TotalOlder DEF Usages
<1>2. \A d \in Calls : t[d] \in Nat /\ w[d] \in Nat /\ w[d] <= t[d]
  BY TotalOlder, TotalOnAges DEF Usages
<1>3. Spent(v) = SumFunctionOnSet(w, Calls) /\ Spent(u) = SumFunctionOnSet(t, Calls)
  <2> HIDE DEF v
  <2> QED
    BY <1>1, SpentOnCalls
<1> HIDE DEF t, w, v
<1>4. SumFunctionOnSet(w, Calls) <= SumFunctionOnSet(t, Calls)
  BY <1>2, CallsAssumption, SumLeq
<1> QED
  BY <1>1, <1>3, <1>4 DEF v

-----------------------------------------------------------------------------
(* The inductive invariant                                                 *)

\* The ages at which d has used tokens since the last answer it lost.
Fresh(d) == {a \in Ages : a < lost[d] /\ used[d][a] # 0}

\* Since then its batches are as large as a batch, and a pause apart.
Paced(d) ==
  /\ \A a \in Fresh(d) : used[d][a] <= BatchTokens
  /\ \A a, b \in Fresh(d) : a < b => b - a >= Pause
  /\ phase[d] = "asking" => \A a \in Fresh(d) : a >= Pause
  /\ phase[d] = "sleeping" => \A a \in Fresh(d) : a + timer[d] >= Pause

IInv ==
  /\ TypeOK
  /\ Taken <= Ceiling
  /\ \A d \in Calls : Paced(d)

LEMMA TakenIs == Taken = Total(earlier) + Spent(used)
BY DEF Taken, Spent

LEMMA UsageType ==
  ASSUME TypeOK
  PROVE  earlier \in Usage /\ used \in Usages
BY DEF TypeOK, Usage, Usages

\* No entry is larger than the sum of all.
LEMMA EntryLeqTaken ==
  ASSUME NEW e \in Usage, NEW u \in Usages, Total(e) + Spent(u) <= Ceiling
  PROVE  e \in [Ages -> 0 .. Ceiling] /\ u \in [Calls -> [Ages -> 0 .. Ceiling]]
<1>1. Total(e) \in Nat /\ Spent(u) \in Nat /\ Ceiling \in Nat
  BY TotalOnAges, SpentOnCalls, Sizes
<1>2. ASSUME NEW a \in Ages PROVE e[a] \in 0 .. Ceiling
  <2>1. e[a] <= Total(e) /\ e[a] \in Nat
    BY AgeLeqTotal DEF Usage
  <2> QED
    BY <1>1, <2>1
<1>3. ASSUME NEW c \in Calls, NEW a \in Ages PROVE u[c][a] \in 0 .. Ceiling
  <2>1. u[c] \in Usage
    BY DEF Usages
  <2>2. u[c][a] <= Total(u[c]) /\ u[c][a] \in Nat
    BY <2>1, AgeLeqTotal DEF Usage
  <2>3. /\ Spent(u) = Total(u[c]) + SpentBeside(u, c)
        /\ SpentBeside(u, c) \in Nat /\ Total(u[c]) \in Nat
    BY SpentApart
  <2> QED
    BY <1>1, <2>2, <2>3
<1> QED
  BY <1>2, <1>3 DEF Usage, Usages

-----------------------------------------------------------------------------
(* The quota                                                               *)

\* The tokens are well-formed and within the quota.
QuotaNext == earlier' \in Usage /\ used' \in Usages /\ Taken' <= Ceiling

\* The deployment takes a batch only if it fits.
LEMMA TakeQuota ==
  ASSUME IInv, NEW c \in Calls, Take(c), UNCHANGED earlier
  PROVE  QuotaNext
<1> DEFINE g == [used[c] EXCEPT ![0] = @ + Tokens(c)]
<1>1. earlier \in Usage /\ used \in Usages /\ used[c] \in Usage /\ Tokens(c) \in Nat
  BY UsageType, BatchType DEF IInv, Usages
<1>2. used' = [used EXCEPT ![c] = g]
  BY <1>1 DEF Take, Usages
<1>3. g \in Usage /\ Total(g) = Total(used[c]) + Tokens(c)
  BY <1>1, TotalTaken
<1> HIDE DEF g
<1>4. used' \in Usages /\ Spent(used') = Total(g) + SpentBeside(used, c)
  BY <1>1, <1>2, <1>3, SpentBesideSame
<1>5. /\ Spent(used) = Total(used[c]) + SpentBeside(used, c)
      /\ SpentBeside(used, c) \in Nat /\ Total(used[c]) \in Nat
  BY <1>1, SpentApart
<1>6. Total(earlier) \in Nat
  BY <1>1, TotalOnAges
<1>7. Taken' = Taken + Tokens(c)
  <2>1. Taken' = Total(earlier') + Spent(used')
    BY DEF Taken, Spent
  <2> QED
    BY <1>1, <1>3, <1>4, <1>5, <1>6, <2>1, TakenIs
<1> QED
  BY <1>1, <1>4, <1>7 DEF QuotaNext, Take

\* A new call moves what the last one used.
LEMMA EmbedQuota ==
  ASSUME IInv, NEW c \in Calls, Embed(c)
  PROVE  QuotaNext
<1>1. earlier \in Usage /\ used \in Usages /\ used[c] \in Usage
  BY UsageType DEF IInv, Usages
<1>2. /\ earlier' = [a \in Ages |-> earlier[a] + used[c][a]]
      /\ used' = [used EXCEPT ![c] = Unused]
  BY DEF Embed
<1>3. earlier' \in Usage /\ Total(earlier') = Total(earlier) + Total(used[c])
  BY <1>1, <1>2, TotalPlus
<1>4. used' \in Usages /\ Spent(used') = 0 + SpentBeside(used, c)
  BY <1>1, <1>2, TotalUnused, SpentBesideSame
<1>5. /\ Spent(used) = Total(used[c]) + SpentBeside(used, c)
      /\ SpentBeside(used, c) \in Nat /\ Total(used[c]) \in Nat
  BY <1>1, SpentApart
<1>6. Total(earlier) \in Nat
  BY <1>1, TotalOnAges
<1>7. Taken' = Taken
  <2>1. Taken' = Total(earlier') + Spent(used')
    BY DEF Taken, Spent
  <2> QED
    BY <1>3, <1>4, <1>5, <1>6, <2>1, TakenIs
<1> QED
  BY <1>3, <1>4, <1>7 DEF QuotaNext, IInv

\* A tick takes nothing.
LEMMA TickQuota ==
  ASSUME IInv, Tick
  PROVE  QuotaNext
<1>1. earlier \in Usage /\ used \in Usages
  BY UsageType DEF IInv
<1>2. used' = [c \in Calls |-> Older(used[c])] /\ earlier' = Older(earlier)
  BY DEF Tick
<1>3. earlier' \in Usage /\ Total(earlier') <= Total(earlier)
  BY <1>1, <1>2, TotalOlder
<1>4. used' \in Usages /\ Spent(used') <= Spent(used)
  BY <1>1, <1>2, SpentOlder
<1>5. Taken' = Total(earlier') + Spent(used')
  BY DEF Taken, Spent
<1>6. /\ Total(earlier) \in Nat /\ Total(earlier') \in Nat
      /\ Spent(used) \in Nat /\ Spent(used') \in Nat
  BY <1>1, <1>3, <1>4, TotalOnAges, SpentOnCalls
<1>7. Taken' <= Ceiling
  BY <1>3, <1>4, <1>5, <1>6, TakenIs, Sizes DEF IInv
<1> QED
  BY <1>3, <1>4, <1>7 DEF QuotaNext

LEMMA SameQuota ==
  ASSUME IInv, UNCHANGED <<used, earlier>>
  PROVE  QuotaNext
<1>1. Taken' = Taken
  BY DEF Taken
<1> QED
  BY <1>1, UsageType DEF IInv, QuotaNext

LEMMA NextQuota ==
  ASSUME IInv, [Next]_vars
  PROVE  QuotaNext
<1>1. CASE Tick
  BY <1>1, TickQuota
<1>2. ASSUME NEW c \in Calls, Embed(c) PROVE QuotaNext
  BY <1>2, EmbedQuota
<1>3. ASSUME NEW c \in Calls, Answered(c) \/ AnswerLost(c) PROVE QuotaNext
  BY <1>3, TakeQuota DEF Answered, AnswerLost
<1>4. ASSUME NEW c \in Calls, Fails(c) \/ Wake(c) PROVE QuotaNext
  BY <1>4, SameQuota DEF Fails, Wake
<1>5. CASE UNCHANGED vars
  BY <1>5, SameQuota DEF vars
<1> QED
  BY <1>1, <1>2, <1>3, <1>4, <1>5 DEF Next, Step

-----------------------------------------------------------------------------
(* The types of the rest                                                   *)

\* The part of TypeOK that is not about tokens.
Calling ==
  /\ phase \in [Calls -> {"idle", "asking", "sleeping"}]
  /\ timer \in [Calls -> 0 .. Pause]
  /\ attempt \in [Calls -> 0 .. MAX_ATTEMPTS]
  /\ results \in [Calls -> Nat] /\ \A c \in Calls : results[c] < Texts[c]
  /\ lost \in [Calls -> 0 .. Minute]

LEMMA SleepType ==
  ASSUME Calling, NEW c \in Calls, NEW ticks \in 0 .. Pause, Sleep(c, ticks)
  PROVE  /\ phase' \in [Calls -> {"idle", "asking", "sleeping"}]
         /\ timer' \in [Calls -> 0 .. Pause]
BY DEF Calling, Sleep

LEMMA ReturnType ==
  ASSUME Calling, NEW c \in Calls, Return(c), lost' \in [Calls -> 0 .. Minute]
  PROVE  Calling'
<1>1. \A d \in Calls : Texts[d] \in Nat \ {0}
  BY SizesAssumption
<1>2. results' \in [Calls -> Nat] /\ \A d \in Calls : results'[d] < Texts[d]
  BY <1>1 DEF Calling, Return
<1>3. attempt' \in [Calls -> 0 .. MAX_ATTEMPTS]
  BY Sizes DEF Calling, Return
<1> QED
  BY <1>2, <1>3 DEF Calling, Return

LEMMA RetryType ==
  ASSUME Calling, NEW c \in Calls, Retry(c), lost' \in [Calls -> 0 .. Minute]
  PROVE  Calling'
<1>1. CASE /\ attempt[c] < MAX_ATTEMPTS
           /\ attempt' = [attempt EXCEPT ![c] = @ + 1]
           /\ Sleep(c, Backoff)
           /\ UNCHANGED results
  <2>1. attempt' \in [Calls -> 0 .. MAX_ATTEMPTS]
    BY <1>1, Sizes DEF Calling
  <2> QED
    BY <1>1, <2>1, Sizes, SleepType DEF Calling
<1>2. CASE Return(c)
  BY <1>2, ReturnType
<1> QED
  BY <1>1, <1>2 DEF Retry

\* Vectors arrive for texts that are left.
LEMMA AnsweredType ==
  ASSUME TypeOK, Calling, NEW c \in Calls, Answered(c)
  PROVE  Calling'
<1>1. lost' = lost
  BY DEF Answered
<1>2. CASE results[c] + Batch(c) = Texts[c]
  BY <1>1, <1>2, ReturnType DEF Answered, Calling
<1>3. CASE results[c] + Batch(c) # Texts[c]
  <2>1. /\ results' = [results EXCEPT ![c] = @ + Batch(c)]
        /\ attempt' = [attempt EXCEPT ![c] = 1]
        /\ Sleep(c, Pause)
    BY <1>3 DEF Answered, PauseBefore
  <2>2. results[c] + Batch(c) \in Nat /\ results[c] + Batch(c) < Texts[c]
    BY <1>3, BatchType, SizesAssumption DEF Calling
  <2>3. results' \in [Calls -> Nat] /\ \A d \in Calls : results'[d] < Texts[d]
    BY <2>1, <2>2 DEF Calling
  <2>4. attempt' \in [Calls -> 0 .. MAX_ATTEMPTS]
    BY <2>1, Sizes DEF Calling
  <2>5. Pause \in 0 .. Pause
    BY Sizes
  <2> QED
    BY <1>1, <2>1, <2>3, <2>4, <2>5, SleepType DEF Calling
<1> QED
  BY <1>2, <1>3

\* A tick, call by call.
LEMMA TickType ==
  ASSUME Calling, Tick
  PROVE  /\ Calling'
         /\ \A d \in Calls : /\ lost'[d] = (IF lost[d] + 1 <= Minute THEN lost[d] + 1 ELSE Minute)
                             /\ phase[d] = "sleeping" => timer'[d] = timer[d] - 1
<1>1. \A d \in Calls : lost'[d] = IF lost[d] + 1 <= Minute THEN lost[d] + 1 ELSE Minute
  BY Sizes, MinOfTwo DEF Calling, Tick
<1>2. lost' \in [Calls -> 0 .. Minute]
  <2>1. lost' = [d \in Calls |-> lost'[d]]
    BY DEF Tick
  <2>2. \A d \in Calls : lost'[d] \in 0 .. Minute
    BY <1>1, Sizes DEF Calling
  <2> QED
    BY <2>1, <2>2
<1>3. ASSUME NEW d \in Calls
      PROVE  /\ timer'[d] \in 0 .. Pause
             /\ phase[d] = "sleeping" => timer'[d] = timer[d] - 1
  <2>1. timer[d] \in 0 .. Pause /\ (phase[d] = "sleeping" => timer[d] > 0)
    BY DEF Calling, Tick
  <2>2. timer'[d] = IF phase[d] = "sleeping" THEN timer[d] - 1 ELSE timer[d]
    BY DEF Tick
  <2> QED
    BY <2>1, <2>2, Sizes
<1>4. timer' \in [Calls -> 0 .. Pause]
  <2>1. timer' = [d \in Calls |-> timer'[d]]
    BY DEF Tick
  <2> QED
    BY <1>3, <2>1
<1> QED
  BY <1>1, <1>2, <1>3, <1>4 DEF Calling, Tick

LEMMA NextType ==
  ASSUME TypeOK, [Next]_vars
  PROVE  Calling'
<1>1. Calling
  BY DEF TypeOK, Calling
<1>2. CASE Tick
  BY <1>1, <1>2, TickType
<1>3. ASSUME NEW c \in Calls, Embed(c) PROVE Calling'
  BY <1>1, <1>3, Sizes DEF Embed, Calling
<1>4. ASSUME NEW c \in Calls, Answered(c) PROVE Calling'
  BY <1>1, <1>4, AnsweredType
<1>5. ASSUME NEW c \in Calls, Fails(c) PROVE Calling'
  BY <1>1, <1>5, RetryType DEF Fails, Calling
<1>6. ASSUME NEW c \in Calls, Wake(c) PROVE Calling'
  BY <1>1, <1>6 DEF Wake, Calling
<1>7. ASSUME NEW c \in Calls, AnswerLost(c) PROVE Calling'
  <2>1. lost' \in [Calls -> 0 .. Minute]
    BY <1>1, <1>7, Sizes DEF AnswerLost, Calling
  <2>2. CASE Retry(c)
    BY <1>1, <2>1, <2>2, RetryType
  <2>3. CASE UNCHANGED <<phase, timer, attempt, results>>
    BY <1>1, <2>1, <2>3 DEF Calling
  <2> QED
    BY <1>7, <2>2, <2>3 DEF AnswerLost
<1>8. CASE UNCHANGED vars
  BY <1>1, <1>8 DEF Calling, vars
<1> QED
  BY <1>2, <1>3, <1>4, <1>5, <1>6, <1>7, <1>8 DEF Next, Step

LEMMA TypeNext ==
  ASSUME IInv, [Next]_vars
  PROVE  TypeOK'
<1>1. QuotaNext /\ Calling'
  BY NextQuota, NextType DEF IInv
<1>2. Total(earlier') + Spent(used') <= Ceiling
  BY <1>1 DEF QuotaNext, Taken, Spent
<1>3. earlier' \in [Ages -> 0 .. Ceiling] /\ used' \in [Calls -> [Ages -> 0 .. Ceiling]]
  BY <1>1, <1>2, EntryLeqTaken DEF QuotaNext
<1> QED
  BY <1>1, <1>3 DEF TypeOK, Calling

-----------------------------------------------------------------------------
(* The pace                                                                *)

\* What c does is no business of d.
LEMMA PacedUntouched ==
  ASSUME NEW d, Paced(d), phase'[d] = phase[d], timer'[d] = timer[d],
         used'[d] = used[d], lost'[d] = lost[d]
  PROVE  Paced(d)'
<1>1. Fresh(d)' = Fresh(d)
  BY DEF Fresh
<1> QED
  BY <1>1 DEF Paced

LEMMA OthersUntouched ==
  ASSUME TypeOK, NEW c \in Calls, NEW d \in Calls, d # c,
         Embed(c) \/ Step(c) \/ AnswerLost(c)
  PROVE  /\ phase'[d] = phase[d] /\ timer'[d] = timer[d]
         /\ used'[d] = used[d] /\ lost'[d] = lost[d]
<1> USE DEF TypeOK
<1>1. CASE Embed(c)
  BY <1>1 DEF Embed
<1>2. CASE Wake(c)
  BY <1>2 DEF Wake
<1>3. ASSUME Retry(c) PROVE phase'[d] = phase[d] /\ timer'[d] = timer[d]
  BY <1>3 DEF Retry, Sleep, Return
<1>4. CASE Fails(c)
  BY <1>3, <1>4 DEF Fails
<1>5. CASE AnswerLost(c)
  BY <1>3, <1>5 DEF AnswerLost, Take
<1>6. CASE Answered(c)
  <2>1. used'[d] = used[d] /\ lost'[d] = lost[d]
    BY <1>6 DEF Answered, Take
  <2>2. phase'[d] = phase[d] /\ timer'[d] = timer[d]
    BY <1>6 DEF Answered, Sleep, Return
  <2> QED
    BY <2>1, <2>2
<1> QED
  BY <1>1, <1>2, <1>4, <1>5, <1>6 DEF Step

\* Nothing is fresh when a call starts, or has just lost an answer.
LEMMA NothingFresh ==
  ASSUME NEW d, Fresh(d)' = {}
  PROVE  Paced(d)'
BY DEF Paced

LEMMA EmbedPaced ==
  ASSUME TypeOK, NEW c \in Calls, Embed(c)
  PROVE  Paced(c)'
<1>1. used'[c] = Unused
  BY DEF Embed, TypeOK
<1>2. Fresh(c)' = {}
  BY <1>1 DEF Fresh, Unused
<1> QED
  BY <1>2, NothingFresh

LEMMA AnswerLostPaced ==
  ASSUME TypeOK, NEW c \in Calls, AnswerLost(c)
  PROVE  Paced(c)'
<1>1. lost'[c] = 0
  BY DEF AnswerLost, TypeOK
<1>2. Fresh(c)' = {}
  BY <1>1, Sizes DEF Fresh, Ages
<1> QED
  BY <1>2, NothingFresh

\* The first attempt at a batch, or a later one, comes a pause after the last
\* batch: whatever follows a failure keeps that.
LEMMA FailsPaced ==
  ASSUME TypeOK, NEW c \in Calls, Paced(c), Fails(c)
  PROVE  Paced(c)'
<1>1. phase[c] = "asking" /\ UNCHANGED <<used, lost>> /\ Retry(c)
  BY DEF Fails
<1>2. Fresh(c)' = Fresh(c) /\ Fresh(c) \subseteq Nat
  BY <1>1, Sizes DEF Fresh, Ages
<1>3. CASE Sleep(c, Backoff)
  <2>1. phase'[c] = "sleeping" /\ timer'[c] = Backoff
    BY <1>3 DEF Sleep, TypeOK
  <2>2. \A a \in Fresh(c) : a + Backoff >= Pause
    BY <1>1, <1>2, Sizes DEF Paced
  <2> QED
    BY <1>1, <1>2, <2>1, <2>2 DEF Paced
<1>4. CASE Return(c)
  <2>1. phase'[c] = "idle"
    BY <1>4 DEF Return, TypeOK
  <2> QED
    BY <1>1, <1>2, <2>1 DEF Paced
<1> QED
  BY <1>1, <1>3, <1>4 DEF Retry

LEMMA WakePaced ==
  ASSUME TypeOK, NEW c \in Calls, Paced(c), Wake(c)
  PROVE  Paced(c)'
<1>1. /\ phase[c] = "sleeping" /\ timer[c] = 0 /\ phase'[c] = "asking"
      /\ UNCHANGED <<timer, used, lost>>
  BY DEF Wake, TypeOK
<1>2. Fresh(c)' = Fresh(c) /\ Fresh(c) \subseteq Nat
  BY <1>1, Sizes DEF Fresh, Ages
<1>3. \A a \in Fresh(c) : a >= Pause
  BY <1>1, <1>2, Sizes DEF Paced
<1> QED
  BY <1>1, <1>2, <1>3 DEF Paced

\* The batch that is answered comes a pause after the last, and another
\* pause follows it.
LEMMA AnsweredPaced ==
  ASSUME TypeOK, NEW c \in Calls, Paced(c), Answered(c)
  PROVE  Paced(c)'
<1>1. phase[c] = "asking" /\ Take(c) /\ lost' = lost
  BY DEF Answered
<1>2. Tokens(c) \in 0 .. BatchTokens
  BY BatchType
<1>3. Fresh(c) \subseteq Nat /\ Pause \in Nat \ {0} /\ BatchTokens \in Nat /\ lost[c] \in Nat
  BY Sizes DEF Fresh, Ages, TypeOK
<1>4. \A a \in Fresh(c) : a >= Pause /\ a # 0
  BY <1>1, <1>3 DEF Paced
<1>5. /\ \A a \in Ages \ {0} : used'[c][a] = used[c][a]
      /\ used'[c][0] = used[c][0] + Tokens(c)
  BY <1>1, AgeZero DEF Take, TypeOK
<1>6. Fresh(c)' \subseteq Fresh(c) \cup {0}
  BY <1>1, <1>5 DEF Fresh
<1>7. 0 \in Fresh(c)' => used'[c][0] <= BatchTokens
  <2> SUFFICES ASSUME 0 \in Fresh(c)' PROVE used'[c][0] <= BatchTokens
    OBVIOUS
  <2>1. 0 < lost[c] /\ 0 \notin Fresh(c)
    BY <1>1, <1>4 DEF Fresh
  <2>2. used[c][0] = 0
    BY <2>1, AgeZero DEF Fresh
  <2> QED
    BY <1>2, <1>5, <2>2
<1>8. \A a \in Fresh(c) : used'[c][a] <= BatchTokens
  BY <1>4, <1>5 DEF Paced, Fresh
<1>9. \A a \in Fresh(c)' : used'[c][a] <= BatchTokens
  BY <1>6, <1>7, <1>8
<1>10. \A a, b \in Fresh(c)' : a < b => b - a >= Pause
  BY <1>3, <1>4, <1>6 DEF Paced
<1>11. \/ phase'[c] = "sleeping" /\ timer'[c] = Pause
       \/ phase'[c] = "idle"
  BY DEF Answered, Sleep, Return, PauseBefore, TypeOK
<1>12. \A a \in Fresh(c)' : a + Pause >= Pause
  BY <1>3, <1>6
<1> QED
  BY <1>9, <1>10, <1>11, <1>12 DEF Paced

\* A tick ages the tokens, and the timer of who sleeps makes up for it.
LEMMA TickPaced ==
  ASSUME TypeOK, NEW d \in Calls, Paced(d), Tick
  PROVE  Paced(d)'
<1>1. /\ phase'[d] = phase[d]
      /\ lost'[d] = IF lost[d] + 1 <= Minute THEN lost[d] + 1 ELSE Minute
      /\ phase[d] = "sleeping" => timer'[d] = timer[d] - 1
  BY TickType DEF Tick, TypeOK, Calling
<1>2. /\ lost[d] \in Nat /\ timer[d] \in Nat /\ Minute \in Nat \ {0} /\ Pause \in Nat
      /\ lost[d] <= Minute
  BY Sizes DEF TypeOK
<1>3. used'[d] = Older(used[d])
  BY DEF Tick
<1>4. ASSUME NEW a \in Fresh(d)'
      PROVE  a \in Nat /\ a - 1 \in Fresh(d) /\ used'[d][a] = used[d][a - 1]
  <2>1. a \in Ages /\ a < lost'[d] /\ Older(used[d])[a] # 0
    BY <1>3 DEF Fresh
  <2>2. a # 0 /\ Older(used[d])[a] = used[d][a - 1]
    BY <2>1 DEF Older
  <2>3. a \in Nat /\ a - 1 \in Ages /\ a - 1 < lost[d]
    BY <1>1, <1>2, <2>1, <2>2 DEF Ages
  <2> QED
    BY <1>3, <2>1, <2>2, <2>3 DEF Fresh
<1>5. \A a \in Fresh(d)' : used'[d][a] <= BatchTokens
  BY <1>4 DEF Paced
<1>6. ASSUME NEW a \in Fresh(d)', NEW b \in Fresh(d)', a < b PROVE b - a >= Pause
  <2>1. /\ a \in Nat /\ b \in Nat /\ a - 1 \in Fresh(d) /\ b - 1 \in Fresh(d)
        /\ a - 1 < b - 1
    BY <1>4, <1>6
  <2>2. (b - 1) - (a - 1) >= Pause
    BY <2>1 DEF Paced
  <2> QED
    BY <1>2, <2>1, <2>2
<1>7. phase[d] = "asking" => \A a \in Fresh(d)' : a >= Pause
  BY <1>2, <1>4 DEF Paced
<1>8. phase[d] = "sleeping" => \A a \in Fresh(d)' : a + timer'[d] >= Pause
  BY <1>1, <1>2, <1>4 DEF Paced
<1> QED
  BY <1>1, <1>5, <1>6, <1>7, <1>8 DEF Paced

LEMMA PacedNext ==
  ASSUME IInv, [Next]_vars, NEW d \in Calls
  PROVE  Paced(d)'
<1> USE DEF IInv
<1>1. CASE Tick
  BY <1>1, TickPaced
<1>2. ASSUME NEW c \in Calls, Embed(c) \/ Step(c) \/ AnswerLost(c) PROVE Paced(d)'
  <2>1. CASE c = d
    BY <1>2, <2>1, EmbedPaced, AnswerLostPaced, FailsPaced, WakePaced, AnsweredPaced DEF Step
  <2>2. CASE c # d
    BY <1>2, <2>2, OthersUntouched, PacedUntouched
  <2> QED
    BY <2>1, <2>2
<1>3. CASE UNCHANGED vars
  BY <1>3, PacedUntouched DEF vars
<1> QED
  BY <1>1, <1>2, <1>3 DEF Next

LEMMA InitInv == Init => IInv
<1> SUFFICES ASSUME Init PROVE IInv
  OBVIOUS
<1>1. earlier \in Usage /\ used \in Usages
  BY TotalUnused DEF Init, Usages
<1>2. Total(earlier) + Spent(used) = 0
  <2>1. \A c \in Calls : [d \in Calls |-> Total(used[d])][c] = 0
    BY TotalUnused DEF Init
  <2>2. SumFunctionOnSet([d \in Calls |-> Total(used[d])], Calls) = 0
    BY <2>1, CallsAssumption, SumZero
  <2> QED
    BY <1>1, <2>2, SpentOnCalls, TotalUnused DEF Init
<1>3. earlier \in [Ages -> 0 .. Ceiling] /\ used \in [Calls -> [Ages -> 0 .. Ceiling]]
  BY <1>1, <1>2, EntryLeqTaken, Sizes
<1>4. TypeOK
  BY <1>3, Sizes, SizesAssumption DEF Init, TypeOK
<1>5. Taken <= Ceiling
  BY <1>2, TakenIs, Sizes
<1>6. ASSUME NEW d \in Calls PROVE Paced(d)
  <2>1. Fresh(d) = {}
    BY DEF Init, Fresh, Unused
  <2> QED
    BY <2>1 DEF Paced
<1> QED
  BY <1>4, <1>5, <1>6 DEF IInv

LEMMA NextInv == IInv /\ [Next]_vars => IInv'
<1> SUFFICES ASSUME IInv, [Next]_vars PROVE IInv'
  OBVIOUS
<1>1. TypeOK' /\ \A d \in Calls : Paced(d)'
  BY TypeNext, PacedNext
<1>2. Taken' <= Ceiling
  BY NextQuota DEF QuotaNext
<1> QED
  BY <1>1, <1>2 DEF IInv

(* The invariant of embed: the types, the quota, and for every call the    *)
(* pause between what it has used since it last lost an answer.            *)
THEOREM Inductive == Spec => []IInv
BY InitInv, NextInv, PTL DEF Spec

(* Every variable keeps its type: no call makes more than MAX_ATTEMPTS     *)
(* attempts at a batch or has more vectors than texts, and no timer runs   *)
(* longer than a pause.                                                    *)
THEOREM TypeCorrect == Spec => []TypeOK
<1>1. IInv => TypeOK
  BY DEF IInv
<1> QED
  BY <1>1, Inductive, PTL

-----------------------------------------------------------------------------
(* What a minute of a paced call holds                                     *)

\* Two batches, counting the one that d asks for.
LEMMA TwoBatches ==
  ASSUME IInv, NEW d \in Calls, lost[d] = Minute
  PROVE  Total(used[d]) + (IF phase[d] = "asking" THEN Tokens(d) ELSE 0) <= 2 * BatchTokens
<1> DEFINE f == used[d]
           B == BatchTokens
<1>1. f \in Usage
  BY UsageType DEF IInv, Usages
<1>2. /\ Total(f) = SumFunctionOnSet(f, Ages) /\ Total(f) \in Nat
      /\ Tokens(d) \in 0 .. B
  BY <1>1, TotalOnAges, BatchType DEF IInv
<1>3. B \in Nat /\ Pause \in Nat \ {0} /\ 2 * Pause >= Minute /\ Minute \in Nat \ {0}
  BY Sizes
<1>4. Fresh(d) = {a \in Ages : f[a] # 0}
  BY Sizes DEF Fresh, Ages
<1>5. Paced(d)
  BY DEF IInv
<1>6. \A a \in Ages : a \in Nat /\ a < Minute
  BY Sizes DEF Ages
<1>7. \A a \in Ages : f[a] \in 0 .. B
  BY <1>1, <1>3, <1>4, <1>5 DEF Paced, Usage
<1>8. \A a, b \in Ages : f[a] # 0 /\ f[b] # 0 /\ a # b => b - a >= Pause \/ a - b >= Pause
  BY <1>4, <1>5, <1>6 DEF Paced
<1> HIDE DEF f, B
<1>9. CASE phase[d] = "asking"
  <2>1. \A a \in Ages : f[a] # 0 => a >= Pause
    BY <1>4, <1>5, <1>9 DEF Paced
  <2>2. \A a, b \in Ages : a # b => f[a] = 0 \/ f[b] = 0
    BY <1>3, <1>6, <1>8, <2>1
  <2>3. Total(f) <= B
    BY <1>2, <1>3, <1>7, <2>2, AgesFinite, OneTerm
  <2> QED
    BY <1>2, <1>3, <1>9, <2>3 DEF f, B
<1>10. CASE phase[d] # "asking"
  <2>1. \A a, b, e \in Ages : a # b /\ b # e /\ a # e => f[a] = 0 \/ f[b] = 0 \/ f[e] = 0
    BY <1>3, <1>6, <1>8
  <2>2. Total(f) <= 2 * B
    BY <1>2, <1>3, <1>7, <2>1, AgesFinite, TwoTerms
  <2> QED
    BY <1>2, <1>3, <1>10, <2>2 DEF f, B
<1> QED
  BY <1>9, <1>10

\* What the others have used, and what one of them asks for, is beside d.
LEMMA BesideCovers ==
  ASSUME IInv, NEW d \in Calls
  PROVE  /\ Beside(d) \in Nat
         /\ Total(earlier) + SpentBeside(used, d) <= Beside(d)
         /\ \A c \in Calls \ {d} : phase[c] = "asking" =>
              Total(earlier) + SpentBeside(used, d) + Tokens(c) <= Beside(d)
<1> DEFINE S == Calls \ {d}
           t == [c \in Calls |-> Total(used[c])]
           ask == [c \in S |-> IF phase[c] = "asking" THEN Tokens(c) ELSE 0]
           both == [c \in S |-> Total(used[c]) + IF phase[c] = "asking" THEN Tokens(c) ELSE 0]
<1>1. IsFiniteSet(S)
  BY CallsAssumption, FS_Subset
<1>2. Total(earlier) \in Nat /\ \A c \in Calls : Total(used[c]) \in Nat
  BY UsageType, TotalOnAges DEF IInv, Usages
<1>3. \A c \in Calls : Tokens(c) \in Nat
  BY BatchType DEF IInv
<1>4. \A c \in S : t[c] \in Nat /\ ask[c] \in Nat /\ both[c] = t[c] + ask[c]
  BY <1>2, <1>3
<1>5. Beside(d) = Total(earlier) + SumFunctionOnSet(both, S)
  <2>1. DOMAIN both = S
    OBVIOUS
  <2>2. Beside(d) = Total(earlier) + SumFunctionOnSet(both, DOMAIN both)
    BY DEF Beside, SumFunction
  <2> HIDE DEF both, S
  <2> QED
    BY <2>1, <2>2
<1>6. SpentBeside(used, d) = SumFunctionOnSet(t, S)
  BY DEF SpentBeside
<1>7. \A c \in S : phase[c] = "asking" => ask[c] = Tokens(c)
  OBVIOUS
<1> HIDE DEF t, ask, both, S
<1>8. SumFunctionOnSet(both, S) = SumFunctionOnSet(t, S) + SumFunctionOnSet(ask, S)
  BY <1>1, <1>4, SumPlus
<1>9. SumFunctionOnSet(t, S) \in Nat /\ SumFunctionOnSet(ask, S) \in Nat
  BY <1>1, <1>4, SumNat
<1>10. \A c \in S : ask[c] <= SumFunctionOnSet(ask, S)
  BY <1>1, <1>4, TermLeq
<1>11. \A c \in S : phase[c] = "asking" =>
         Total(earlier) + SpentBeside(used, d) + Tokens(c) <= Beside(d)
  <2> SUFFICES ASSUME NEW c \in S, phase[c] = "asking"
               PROVE  Total(earlier) + SpentBeside(used, d) + Tokens(c) <= Beside(d)
    OBVIOUS
  <2>1. Tokens(c) <= SumFunctionOnSet(ask, S) /\ Tokens(c) \in Nat
    BY <1>3, <1>7, <1>10 DEF S
  <2> QED
    BY <1>2, <1>5, <1>6, <1>8, <1>9, <2>1
<1>12. Beside(d) \in Nat /\ Total(earlier) + SpentBeside(used, d) <= Beside(d)
  BY <1>2, <1>5, <1>6, <1>8, <1>9
<1> QED
  BY <1>11, <1>12 DEF S

LEMMA PacedFit ==
  ASSUME IInv
  PROVE  PacedFits
<1> SUFFICES ASSUME NEW d \in Calls, lost[d] = Minute, Beside(d) <= Ceiling - 2 * BatchTokens,
                    NEW c \in Calls, phase[c] = "asking"
             PROVE  Taken + Tokens(c) <= Ceiling
  BY DEF PacedFits
<1>1. Total(used[d]) + (IF phase[d] = "asking" THEN Tokens(d) ELSE 0) <= 2 * BatchTokens
  BY TwoBatches
<1>2. /\ Taken = Total(earlier) + Total(used[d]) + SpentBeside(used, d)
      /\ Total(earlier) \in Nat /\ SpentBeside(used, d) \in Nat /\ Total(used[d]) \in Nat
  <2>1. earlier \in Usage /\ used \in Usages
    BY UsageType DEF IInv
  <2>2. /\ Spent(used) = Total(used[d]) + SpentBeside(used, d)
        /\ SpentBeside(used, d) \in Nat /\ Total(used[d]) \in Nat
    BY <2>1, SpentApart
  <2>3. Total(earlier) \in Nat
    BY <2>1, TotalOnAges
  <2> QED
    BY <2>2, <2>3, TakenIs
<1>3. Tokens(c) \in Nat /\ Tokens(d) \in Nat /\ BatchTokens \in Nat /\ Ceiling \in Nat
  BY BatchType, Sizes DEF IInv
<1>4. Beside(d) \in Nat
  BY BesideCovers
<1>5. CASE c = d
  <2>1. Total(earlier) + SpentBeside(used, d) <= Beside(d)
    BY BesideCovers
  <2> QED
    BY <1>1, <1>2, <1>3, <1>4, <1>5, <2>1
<1>6. CASE c # d
  <2>1. Total(earlier) + SpentBeside(used, d) + Tokens(c) <= Beside(d)
    BY <1>6, BesideCovers
  <2>2. Total(used[d]) <= 2 * BatchTokens
    BY <1>1, <1>2, <1>3
  <2> QED
    BY <1>2, <1>3, <1>4, <2>1, <2>2
<1> QED
  BY <1>5, <1>6

(* A call whose answers arrive never meets a 429, nor does anyone beside   *)
(* it, as long as the others leave room for two batches: for every batch   *)
(* size, quota and number of callers that PaceAssumption allows.           *)
THEOREM PacedNeverRefused == Spec => []PacedFits
<1>1. IInv => PacedFits
  BY PacedFit
<1> QED
  BY <1>1, Inductive, PTL

=============================================================================
