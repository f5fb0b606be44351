------------------------- MODULE CorpusIndex_proofs -------------------------
(***************************************************************************)
(* Proofs about CorpusIndex, for every number of runs at once, of sources  *)
(* and their chunks, and all sizes of batches and pages.                   *)
(***************************************************************************)
EXTENDS CorpusIndex, FiniteSetTheorems, TLAPS

\* A run has counted what is not pending any more, and nothing else.
CountInv(u) ==
  /\ stage[u] \in {"idle", "fetching", "sweeping"} => pending[u] = {}
  /\ stage[u] \in {"fetching", "sweeping", "embedding"} => uploaded[u] = 0
  /\ uploaded[u] + Cardinality(pending[u]) <= LastId

\* What a run uploads is in chunks.jsonl.
ChunkInv(u) == pending[u] \subseteq InChunks(u)

\* What the index holds was a chunk of its page.
IndexInv == \A d \in Present : Has(d, index[d])

BaseInv ==
  /\ TypeOK
  /\ IndexInv
  /\ \A u \in Writers : CountInv(u) /\ ChunkInv(u)

-----------------------------------------------------------------------------

LEMMA NamesDistinct ==
  /\ Nothing \notin Versions /\ Todo \notin Versions /\ FetchFailed \notin Versions
  /\ 1 \in Versions
BY HistoryAssumption DEF Nothing, Todo, FetchFailed, Versions

LEMMA SourceOfId == \A d \in Ids : SourceOf[d] \in Sources
BY DEF Sources

LEMMA IdsFinite ==
  ASSUME NEW P \in SUBSET Ids
  PROVE  IsFiniteSet(P) /\ Cardinality(P) \in Nat /\ Cardinality(P) <= LastId
<1>1. IsFiniteSet(Ids) /\ Cardinality(Ids) = LastId
  BY FS_Interval, SizesAssumption DEF Ids
<1> QED
  BY <1>1, FS_Subset, FS_CardinalityType

\* A batch and what is left of it are all there was.
LEMMA BatchCount ==
  ASSUME NEW P \in SUBSET Ids
  PROVE  /\ Batch(P) \subseteq P
         /\ Cardinality(Batch(P)) \in Nat /\ Cardinality(P \ Batch(P)) \in Nat
         /\ Cardinality(Batch(P)) + Cardinality(P \ Batch(P)) = Cardinality(P)
<1>1. Batch(P) \subseteq P
  BY DEF Batch
<1>2. P \cap Batch(P) = Batch(P)
  BY <1>1
<1>3. Cardinality(P \ Batch(P)) = Cardinality(P) - Cardinality(Batch(P))
  BY <1>2, FS_Difference, IdsFinite
<1> QED
  BY <1>1, <1>3, IdsFinite

\* Documents that land keep the index well formed.
LEMMA LandType ==
  ASSUME BaseInv, NEW w \in Writers, NEW A \in SUBSET pending[w], Land(w, A)
  PROVE  /\ index' \in [Ids -> Versions \cup {Nothing}]
         /\ IndexInv'
         /\ \A d \in A : index'[d] = Got(w, d) /\ index'[d] \in Versions /\ Has(d, index'[d])
         /\ \A d \in Ids \ A : index'[d] = index[d]
<1>1. /\ A \subseteq InChunks(w) /\ A \subseteq Ids
      /\ \A d \in InChunks(w) : Got(w, d) \in Versions /\ Has(d, Got(w, d))
  BY DEF BaseInv, ChunkInv, InChunks, Has
<1>2. index' = [d \in Ids |-> IF d \in A THEN Got(w, d) ELSE index[d]]
  BY DEF Land
<1>3. index' \in [Ids -> Versions \cup {Nothing}]
  BY <1>1, <1>2 DEF BaseInv, TypeOK
<1>4. ASSUME NEW d \in Ids, index'[d] # Nothing PROVE Has(d, index'[d])
  BY <1>1, <1>2, <1>4 DEF BaseInv, IndexInv, Present
<1> QED
  BY <1>1, <1>2, <1>3, <1>4 DEF IndexInv, Present

\* What a step of w does to the index.
LEMMA IndexStep ==
  ASSUME BaseInv, NEW w \in Writers, Start(w) \/ Advance(w) \/ Kill(w)
  PROVE  \E A \in SUBSET pending[w] :
           /\ Land(w, A)
           /\ \A u \in Writers \ {w} : clean'[u] => clean[u] /\ A = {}
<1> USE DEF BaseInv, TypeOK
<1>1. ASSUME UNCHANGED index, \A u \in Writers \ {w} : clean'[u] = clean[u]
      PROVE  \E A \in SUBSET pending[w] :
               /\ Land(w, A)
               /\ \A u \in Writers \ {w} : clean'[u] => clean[u] /\ A = {}
  <2>1. Land(w, {})
    BY <1>1 DEF Land
  <2> QED
    BY <1>1, <2>1
<1>2. CASE Start(w)
  BY <1>1, <1>2 DEF Start
<1>3. CASE Kill(w) \/ Raise(w)
  <2>1. CutOff(w)
    BY <1>3 DEF Kill, Raise
  <2>2. PICK A \in SUBSET (IF stage[w] = "uploading" THEN Batch(pending[w]) ELSE {}) :
          Land(w, A) /\ Soils(w, A, FALSE)
    BY <2>1 DEF CutOff
  <2>3. A \subseteq pending[w]
    BY <2>2 DEF Batch
  <2>4. \A u \in Writers \ {w} : clean'[u] => clean[u] /\ A = {}
    BY <2>2 DEF Soils
  <2> QED
    BY <2>2, <2>3, <2>4
<1>4. ASSUME NEW s \in Sources, Fetch(w, s) PROVE UNCHANGED <<index, clean>>
  BY <1>4 DEF Fetch
<1>5. CASE Chunk(w)
  BY <1>1, <1>5 DEF Chunk
<1>6. CASE Sweep(w)
  BY <1>1, <1>6 DEF Sweep
<1>7. CASE Embed(w)
  BY <1>1, <1>7 DEF Embed
<1>8. CASE Upload(w)
  <2>1. PICK A \in SUBSET Batch(pending[w]) :
          Land(w, A) /\ Soils(w, A, A = Batch(pending[w]))
    BY <1>8 DEF Upload
  <2>2. A \subseteq pending[w]
    BY <2>1 DEF Batch
  <2>3. \A u \in Writers \ {w} : clean'[u] => clean[u] /\ A = {}
    BY <2>1 DEF Soils
  <2> QED
    BY <2>1, <2>2, <2>3
<1> QED
  BY <1>1, <1>2, <1>3, <1>4, <1>5, <1>6, <1>7, <1>8 DEF Advance

\* What a step of w leaves alone.
Same4(u) ==
  /\ stage'[u] = stage[u] /\ want'[u] = want[u]
  /\ pending'[u] = pending[u] /\ uploaded'[u] = uploaded[u]

RunType ==
  /\ stage \in [Writers -> Stages]
  /\ want \in [Writers -> [Sources -> Versions \cup {Nothing, Todo, FetchFailed}]]
  /\ pending \in [Writers -> SUBSET Ids]
  /\ uploaded \in [Writers -> 0 .. LastId]
  /\ outcome \in [Writers -> {None, "success", "error"}]
  /\ clean \in [Writers -> BOOLEAN]

\* A run that ends, well or not, has nothing pending.
LEMMA EndRun ==
  ASSUME TypeOK, NEW w \in Writers, NEW o \in {None, "success", "error"}, End(w, o),
         uploaded' \in [Writers -> 0 .. LastId], clean' \in [Writers -> BOOLEAN],
         \A u \in Writers \ {w} : uploaded'[u] = uploaded[u]
  PROVE  RunType' /\ CountInv(w)' /\ ChunkInv(w)' /\ \A u \in Writers \ {w} : Same4(u)
<1> USE DEF TypeOK
<1>1. RunType'
  BY NamesDistinct DEF End, RunType, Stages
<1>2. /\ stage'[w] = "idle" /\ pending'[w] = {} /\ want'[w] = [s \in Sources |-> Nothing]
      /\ uploaded'[w] \in 0 .. LastId
  BY DEF End
<1>3. CountInv(w)'
  BY <1>2, FS_EmptySet DEF CountInv
<1>4. ChunkInv(w)'
  BY <1>2, NamesDistinct DEF ChunkInv, InChunks, Got
<1>5. \A u \in Writers \ {w} : Same4(u)
  BY DEF End, Same4
<1> QED
  BY <1>1, <1>3, <1>4, <1>5

LEMMA RunStep ==
  ASSUME BaseInv, NEW w \in Writers, Start(w) \/ Advance(w) \/ Kill(w)
  PROVE  RunType' /\ CountInv(w)' /\ ChunkInv(w)' /\ \A u \in Writers \ {w} : Same4(u)
<1> DEFINE Goal == RunType' /\ CountInv(w)' /\ ChunkInv(w)'
                   /\ \A u \in Writers \ {w} : Same4(u)
<1> HIDE DEF Goal
<1>0. /\ TypeOK /\ CountInv(w) /\ ChunkInv(w)
      /\ LastId \in Nat /\ 0 \in 0 .. LastId
  BY SizesAssumption DEF BaseInv
<1>1. CASE Start(w)
  <2>1. RunType'
    BY <1>0, <1>1, NamesDistinct DEF Start, TypeOK, RunType, Stages
  <2>2. /\ stage[w] = "idle" /\ stage'[w] = "fetching"
        /\ pending'[w] = pending[w] /\ uploaded'[w] = 0
        /\ want'[w] = [s \in Sources |-> Todo]
    BY <1>0, <1>1 DEF Start, TypeOK
  <2>3. CountInv(w)' /\ ChunkInv(w)'
    BY <1>0, <2>2, FS_EmptySet, NamesDistinct DEF CountInv, ChunkInv, InChunks, Got
  <2>4. \A u \in Writers \ {w} : Same4(u)
    BY <1>0, <1>1 DEF Start, TypeOK, Same4
  <2> QED
    BY <2>1, <2>3, <2>4 DEF Goal
<1>2. ASSUME NEW s \in Sources, Fetch(w, s) PROVE Goal
  <2>2. /\ want' \in [Writers -> [Sources -> Versions \cup {Nothing, Todo, FetchFailed}]]
        /\ \A u \in Writers \ {w} : want'[u] = want[u]
    BY <1>0, <1>2 DEF Fetch, TypeOK
  <2>3. UNCHANGED <<stage, pending, uploaded, outcome, clean>> /\ stage[w] = "fetching"
    BY <1>2 DEF Fetch
  <2>4. RunType'
    BY <1>0, <2>2, <2>3 DEF RunType, TypeOK
  <2>5. CountInv(w)' /\ ChunkInv(w)'
    BY <1>0, <2>3, FS_EmptySet DEF CountInv, ChunkInv
  <2>6. \A u \in Writers \ {w} : Same4(u)
    BY <2>2, <2>3 DEF Same4
  <2> QED
    BY <2>4, <2>5, <2>6 DEF Goal
<1>3. CASE Chunk(w)
  <2>1. CASE End(w, "error")
    BY <1>0, <1>3, <2>1, EndRun DEF Chunk, TypeOK, Goal
  <2>2. CASE stage' = [stage EXCEPT ![w] = "sweeping"] /\ UNCHANGED <<want, pending, outcome>>
    <3>1. RunType'
      BY <1>0, <1>3, <2>2 DEF Chunk, RunType, TypeOK, Stages
    <3>2. /\ stage[w] = "fetching" /\ stage'[w] = "sweeping"
          /\ UNCHANGED <<want, pending, uploaded>>
      BY <1>0, <1>3, <2>2 DEF Chunk, TypeOK
    <3>3. CountInv(w)' /\ ChunkInv(w)'
      BY <1>0, <3>2 DEF CountInv, ChunkInv, InChunks, Got
    <3>4. \A u \in Writers \ {w} : Same4(u)
      BY <1>0, <2>2, <3>2 DEF Same4, TypeOK
    <3> QED
      BY <3>1, <3>3, <3>4 DEF Goal
  <2> QED
    BY <1>3, <2>1, <2>2 DEF Chunk
<1>4. CASE Sweep(w)
  <2>1. PICK listed \in SUBSET Present :
          \/ Stale(w, listed) = {} /\ End(w, "success")
          \/ /\ Stale(w, listed) # {}
             /\ pending' = [pending EXCEPT ![w] = Stale(w, listed)]
             /\ stage' = [stage EXCEPT ![w] = "embedding"]
             /\ UNCHANGED <<want, outcome>>
    BY <1>4 DEF Sweep
  <2>2. /\ stage[w] = "sweeping" /\ clean' = [clean EXCEPT ![w] = TRUE]
        /\ uploaded' = uploaded
    BY <1>4 DEF Sweep
  <2>3. CASE End(w, "success")
    BY <1>0, <2>2, <2>3, EndRun DEF TypeOK, Goal
  <2>4. CASE /\ pending' = [pending EXCEPT ![w] = Stale(w, listed)]
             /\ stage' = [stage EXCEPT ![w] = "embedding"]
             /\ UNCHANGED <<want, outcome>>
    <3>1. Stale(w, listed) \subseteq InChunks(w) /\ Stale(w, listed) \subseteq Ids
      BY DEF Stale, InChunks, Got
    <3>2. RunType'
      BY <1>0, <2>2, <2>4, <3>1 DEF RunType, TypeOK, Stages
    <3>3. /\ stage'[w] = "embedding" /\ pending'[w] = Stale(w, listed)
          /\ UNCHANGED <<want, uploaded>>
      BY <1>0, <2>2, <2>4 DEF TypeOK
    <3>4. CountInv(w)'
      BY <1>0, <2>2, <3>1, <3>3, IdsFinite DEF CountInv
    <3>5. ChunkInv(w)'
      BY <1>0, <3>1, <3>3 DEF ChunkInv, InChunks, Got
    <3>6. \A u \in Writers \ {w} : Same4(u)
      BY <1>0, <2>2, <2>4 DEF Same4, TypeOK
    <3> QED
      BY <3>2, <3>4, <3>5, <3>6 DEF Goal
  <2> QED
    BY <2>1, <2>3, <2>4
<1>5. CASE Embed(w)
  <2>1. RunType'
    BY <1>0, <1>5 DEF Embed, RunType, TypeOK, Stages
  <2>2. /\ stage[w] = "embedding" /\ stage'[w] = "uploading"
        /\ UNCHANGED <<want, pending, uploaded>>
    BY <1>0, <1>5 DEF Embed, TypeOK
  <2>3. CountInv(w)' /\ ChunkInv(w)'
    BY <1>0, <2>2 DEF CountInv, ChunkInv, InChunks, Got
  <2>4. \A u \in Writers \ {w} : Same4(u)
    BY <1>0, <1>5, <2>2 DEF Embed, Same4, TypeOK
  <2> QED
    BY <2>1, <2>3, <2>4 DEF Goal
<1>6. CASE Upload(w)
  <2> DEFINE B == Batch(pending[w])
  <2>1. /\ B \subseteq pending[w] /\ pending[w] \subseteq Ids
        /\ Cardinality(B) \in Nat /\ Cardinality(pending[w] \ B) \in Nat
        /\ Cardinality(B) + Cardinality(pending[w] \ B) = Cardinality(pending[w])
    BY <1>0, BatchCount DEF TypeOK
  <2>2. /\ stage[w] = "uploading"
        /\ uploaded' = [uploaded EXCEPT ![w] = @ + Cardinality(B)]
        /\ clean' \in [Writers -> BOOLEAN]
    BY <1>0, <1>6 DEF Upload, Soils, TypeOK
  <2> HIDE DEF B
  <2>3. uploaded[w] + Cardinality(B) + Cardinality(pending[w] \ B) <= LastId
    BY <1>0, <2>1 DEF CountInv, TypeOK
  <2>4. /\ uploaded' \in [Writers -> 0 .. LastId]
        /\ uploaded'[w] = uploaded[w] + Cardinality(B)
        /\ \A u \in Writers \ {w} : uploaded'[u] = uploaded[u]
    BY <1>0, <2>1, <2>2, <2>3 DEF TypeOK
  <2>5. CASE End(w, "success")
    BY <1>0, <2>2, <2>4, <2>5, EndRun DEF Goal
  <2>6. CASE pending' = [pending EXCEPT ![w] = @ \ B] /\ UNCHANGED <<stage, want, outcome>>
    <3>1. RunType'
      BY <1>0, <2>2, <2>4, <2>6 DEF RunType, TypeOK
    <3>2. pending'[w] = pending[w] \ B /\ stage'[w] = "uploading" /\ want'[w] = want[w]
      BY <1>0, <2>2, <2>6 DEF TypeOK
    <3>3. CountInv(w)'
      BY <2>3, <2>4, <3>2 DEF CountInv
    <3>4. ChunkInv(w)'
      BY <1>0, <2>6, <3>2 DEF ChunkInv, InChunks, Got
    <3>5. \A u \in Writers \ {w} : Same4(u)
      BY <1>0, <2>4, <2>6 DEF Same4, TypeOK
    <3> QED
      BY <3>1, <3>3, <3>4, <3>5 DEF Goal
  <2> QED
    BY <1>6, <2>5, <2>6 DEF Upload, B
<1>7. CASE Raise(w) \/ Kill(w)
  <2>1. clean' \in [Writers -> BOOLEAN]
    BY <1>0, <1>7 DEF Raise, Kill, CutOff, Soils, TypeOK
  <2>2. /\ uploaded' \in [Writers -> 0 .. LastId]
        /\ \A u \in Writers \ {w} : uploaded'[u] = uploaded[u]
    BY <1>0, <1>7 DEF Raise, Kill, TypeOK
  <2>3. End(w, "error") \/ End(w, None)
    BY <1>7 DEF Raise, Kill
  <2> QED
    BY <1>0, <2>1, <2>2, <2>3, EndRun DEF Goal
<1> QED
  BY <1>1, <1>2, <1>3, <1>4, <1>5, <1>6, <1>7 DEF Advance, Goal

\* Nobody but Edit changes the pages.
LEMMA SourceStep ==
  ASSUME NEW w \in Writers, Start(w) \/ Advance(w) \/ Kill(w)
  PROVE  source' = source
BY DEF Start, Advance, Fetch, Chunk, Sweep, Embed, Upload, Raise, Kill

LEMMA EditType ==
  ASSUME TypeOK, Edit
  PROVE  /\ source' \in [Sources -> Versions]
         /\ \A s \in Sources : source'[s] >= source[s]
         /\ UNCHANGED <<index, stage, want, pending, uploaded, outcome, clean>>
<1>1. PICK s \in Sources : source[s] < Len(History) /\ source' = [source EXCEPT ![s] = @ + 1]
  BY DEF Edit
<1>2. source[s] + 1 \in Versions
  BY <1>1, HistoryAssumption DEF TypeOK, Versions
<1>3. \A e \in Sources : source[e] \in Int
  BY DEF TypeOK, Versions
<1> QED
  BY <1>1, <1>2, <1>3 DEF Edit, run, TypeOK

\* What a step of u's neighbours leaves of the invariants of u.
LEMMA SameInv ==
  ASSUME NEW u \in Writers, Same4(u), CountInv(u), ChunkInv(u)
  PROVE  CountInv(u)' /\ ChunkInv(u)'
BY DEF Same4, CountInv, ChunkInv, InChunks, Got

LEMMA InitBase == Init => BaseInv
<1> SUFFICES ASSUME Init PROVE BaseInv
  OBVIOUS
<1>1. 0 \in 0 .. LastId /\ LastId \in Nat
  BY SizesAssumption
<1>2. TypeOK
  BY <1>1, NamesDistinct DEF Init, TypeOK, Stages
<1>3. IndexInv
  BY DEF Init, IndexInv, Present
<1>4. ASSUME NEW u \in Writers PROVE CountInv(u) /\ ChunkInv(u)
  BY <1>1, FS_EmptySet, NamesDistinct DEF Init, CountInv, ChunkInv, InChunks, Got
<1> QED
  BY <1>2, <1>3, <1>4 DEF BaseInv

LEMMA StepBase == BaseInv /\ [Next]_vars => BaseInv'
<1> SUFFICES ASSUME BaseInv, [Next]_vars PROVE BaseInv'
  OBVIOUS
<1>1. ASSUME NEW w \in Writers, Start(w) \/ Advance(w) \/ Kill(w) PROVE BaseInv'
  <2>1. RunType' /\ CountInv(w)' /\ ChunkInv(w)' /\ \A u \in Writers \ {w} : Same4(u)
    BY <1>1, RunStep
  <2>2. index' \in [Ids -> Versions \cup {Nothing}] /\ IndexInv'
    BY <1>1, IndexStep, LandType
  <2>3. TypeOK'
    BY <1>1, <2>1, <2>2, SourceStep DEF TypeOK, RunType, BaseInv
  <2>4. ASSUME NEW u \in Writers PROVE CountInv(u)' /\ ChunkInv(u)'
    BY <2>1, SameInv DEF BaseInv
  <2> QED
    BY <2>2, <2>3, <2>4 DEF BaseInv
<1>2. CASE Edit
  BY <1>2, EditType DEF BaseInv, TypeOK, IndexInv, Present, CountInv, ChunkInv, InChunks, Got
<1>3. CASE UNCHANGED vars
  BY <1>3 DEF vars, run, BaseInv, TypeOK, IndexInv, Present, CountInv, ChunkInv, InChunks, Got
<1> QED
  BY <1>1, <1>2, <1>3 DEF Next

(* What runs have pending and counted, and what they and the index hold,   *)
(* is well formed, however many runs there are at once.                    *)
THEOREM Base == Spec => []BaseInv
BY InitBase, StepBase, PTL DEF Spec

(* In particular no run counts more uploads than there are chunks.         *)
THEOREM TypeCorrect == Spec => []TypeOK
<1>1. BaseInv => TypeOK
  BY DEF BaseInv
<1> QED
  BY <1>1, Base, PTL

-----------------------------------------------------------------------------
(* A clean run leaves its chunks in the index                              *)

\* Versions of a chunk that content_hash tells apart differ in nothing else.
HashesDistinct ==
  \A d \in Ids : \A v, x \in Versions :
    Has(d, v) /\ Has(d, x) /\ Hash(d, v) = Hash(d, x) => ChunkAt(d, v) = ChunkAt(d, x)

\* Since its sweep, a clean run has seen to every chunk that is not pending.
CleanInv(u) ==
  clean[u] /\ stage[u] \in {"embedding", "uploading"} =>
    \A d \in InChunks(u) \ pending[u] : Same(d, index[d], Got(u, d))

\* What the sweep finds up to date is.
LEMMA SparedIsSame ==
  ASSUME HashesDistinct, BaseInv, NEW w \in Writers, NEW listed \in SUBSET Present,
         NEW d \in InChunks(w) \ Stale(w, listed)
  PROVE  Same(d, index[d], Got(w, d))
<1>1. /\ d \in Ids /\ d \in Present
      /\ Hash(d, index[d]) = Hash(d, Got(w, d))
  BY DEF Stale, InChunks, Got
<1>2. /\ index[d] \in Versions /\ Got(w, d) \in Versions
      /\ Has(d, index[d]) /\ Has(d, Got(w, d))
  BY <1>1 DEF BaseInv, TypeOK, IndexInv, Present, InChunks, Has
<1> QED
  BY <1>1, <1>2 DEF HashesDistinct, Same

\* An answered batch of a clean run adds its chunks to what is up to date.
LEMMA UploadedIsSame ==
  ASSUME BaseInv, NEW w \in Writers, CleanInv(w), Upload(w), clean'[w]
  PROVE  \A d \in InChunks(w) \ (pending[w] \ Batch(pending[w])) :
           Same(d, index'[d], Got(w, d))
<1>1. PICK A \in SUBSET Batch(pending[w]) :
        Land(w, A) /\ Soils(w, A, A = Batch(pending[w]))
  BY DEF Upload
<1>2. A = Batch(pending[w]) /\ clean[w] /\ stage[w] = "uploading"
  BY <1>1 DEF Soils, Upload
<1>3. A \in SUBSET pending[w]
  BY <1>1 DEF Batch
<1>4. /\ \A d \in A : index'[d] = Got(w, d) /\ Has(d, index'[d])
      /\ \A d \in Ids \ A : index'[d] = index[d]
  BY <1>1, <1>3, LandType
<1> QED
  BY <1>2, <1>4 DEF CleanInv, InChunks, Got, Same

LEMMA StepClean ==
  ASSUME HashesDistinct, BaseInv, [Next]_vars, NEW u \in Writers, CleanInv(u)
  PROVE  CleanInv(u)'
<1>0. BaseInv /\ TypeOK
  BY DEF BaseInv
<1>1. ASSUME NEW w \in Writers, w # u, Start(w) \/ Advance(w) \/ Kill(w)
      PROVE  CleanInv(u)'
  <2>1. PICK A \in SUBSET pending[w] : Land(w, A) /\ (clean'[u] => clean[u] /\ A = {})
    BY <1>1, IndexStep
  <2>2. Same4(u)
    BY <1>1, RunStep
  <2>3. clean'[u] => clean[u] /\ \A d \in Ids : index'[d] = index[d]
    BY <2>1, LandType
  <2> QED
    BY <2>2, <2>3 DEF CleanInv, Same4, InChunks, Got
<1>2. CASE Start(u)
  BY <1>0, <1>2 DEF Start, CleanInv, TypeOK
<1>3. ASSUME NEW s \in Sources, Fetch(u, s) PROVE CleanInv(u)'
  BY <1>0, <1>3 DEF Fetch, CleanInv, TypeOK
<1>4. CASE Chunk(u)
  BY <1>0, <1>4 DEF Chunk, End, CleanInv, TypeOK
<1>5. CASE Sweep(u)
  <2>1. PICK listed \in SUBSET Present :
          \/ Stale(u, listed) = {} /\ End(u, "success")
          \/ /\ pending' = [pending EXCEPT ![u] = Stale(u, listed)]
             /\ UNCHANGED <<want, outcome>>
    BY <1>5 DEF Sweep
  <2>2. index' = index
    BY <1>5 DEF Sweep
  <2>3. CASE End(u, "success")
    BY <1>0, <2>3 DEF End, CleanInv, TypeOK
  <2>4. CASE pending' = [pending EXCEPT ![u] = Stale(u, listed)] /\ UNCHANGED want
    <3>1. pending'[u] = Stale(u, listed) /\ InChunks(u)' = InChunks(u)
      BY <1>0, <2>4 DEF TypeOK, InChunks, Got
    <3> QED
      BY <2>2, <2>4, <3>1, SparedIsSame DEF CleanInv, Got
  <2> QED
    BY <2>1, <2>3, <2>4
<1>6. CASE Embed(u)
  BY <1>0, <1>6 DEF Embed, CleanInv, TypeOK, InChunks, Got
<1>7. CASE Upload(u)
  <2>1. CASE End(u, "success")
    BY <1>0, <2>1 DEF End, CleanInv, TypeOK
  <2>2. CASE /\ pending' = [pending EXCEPT ![u] = @ \ Batch(pending[u])]
             /\ UNCHANGED <<stage, want, outcome>>
    <3>1. /\ pending'[u] = pending[u] \ Batch(pending[u])
          /\ InChunks(u)' = InChunks(u) /\ want' = want
      BY <1>0, <2>2 DEF TypeOK, InChunks, Got
    <3> QED
      BY <1>7, <3>1, UploadedIsSame DEF CleanInv, Got
  <2> QED
    BY <1>7, <2>1, <2>2 DEF Upload
<1>8. CASE Raise(u) \/ Kill(u)
  BY <1>0, <1>8 DEF Raise, Kill, End, CleanInv, TypeOK
<1>9. CASE Edit
  BY <1>9, EditType, <1>0 DEF CleanInv, InChunks, Got
<1>10. CASE UNCHANGED vars
  BY <1>10 DEF vars, run, CleanInv, InChunks, Got
<1> QED
  BY <1>1, <1>2, <1>3, <1>4, <1>5, <1>6, <1>7, <1>8, <1>9, <1>10 DEF Next, Advance

\* The step that ends a clean run well.
LEMMA CleanEnd ==
  ASSUME HashesDistinct, BaseInv, [Next]_vars, NEW w \in Writers, CleanInv(w),
         Succeeds(w), clean'[w], NEW d \in InChunks(w)
  PROVE  Same(d, index'[d], Got(w, d))
<1>0. TypeOK /\ d \in Ids
  BY DEF BaseInv, InChunks, Got
<1>1. CASE Sweep(w)
  <2>1. stage[w] = "sweeping" /\ index' = index
    BY <1>1 DEF Sweep
  <2>2. PICK listed \in SUBSET Present :
          Stale(w, listed) = {} \/ stage' = [stage EXCEPT ![w] = "embedding"]
    BY <1>1 DEF Sweep
  <2>3. Stale(w, listed) = {}
    BY <1>0, <2>2 DEF Succeeds, TypeOK
  <2> QED
    BY <2>1, <2>3, SparedIsSame
<1>2. CASE Upload(w)
  <2>1. pending[w] = Batch(pending[w])
    BY <1>2 DEF Upload, Succeeds
  <2> QED
    BY <1>2, <2>1, UploadedIsSame
<1>3. ~Start(w) /\ ~Raise(w) /\ ~Kill(w) /\ ~Chunk(w) /\ ~Embed(w)
      /\ \A s \in Sources : ~Fetch(w, s)
  BY <1>0, NoneAssumption
     DEF Succeeds, Start, Raise, Kill, Chunk, Embed, Fetch, End, TypeOK
<1>4. ASSUME NEW u \in Writers \ {w} PROVE ~(Start(u) \/ Advance(u) \/ Kill(u))
  BY RunStep DEF Same4, Succeeds
<1>5. ~Edit /\ ~UNCHANGED vars
  BY <1>0, EditType DEF Succeeds, vars, run
<1> QED
  BY <1>1, <1>2, <1>3, <1>4, <1>5 DEF Next, Advance

(* Any number of runs may overlap, fail and die in any order: one that     *)
(* succeeds and was clean since its sweep leaves what it fetched in the    *)
(* index, if no two versions of a chunk collide under content_hash.        *)
THEOREM CleanRuns ==
  ASSUME HashesDistinct
  PROVE  Spec => CleanRunUpToDate
<1> DEFINE IInv == BaseInv /\ \A u \in Writers : CleanInv(u)
<1>1. Init => IInv
  BY InitBase DEF Init, CleanInv
<1>2. IInv /\ [Next]_vars => IInv'
  BY StepBase, StepClean
<1>3. IInv /\ [Next]_vars =>
        [\A w \in Writers : Succeeds(w) /\ clean'[w] =>
           \A d \in InChunks(w) : Same(d, index'[d], Got(w, d))]_vars
  BY CleanEnd
<1> HIDE DEF IInv
<1> QED
  BY <1>1, <1>2, <1>3, PTL DEF Spec, CleanRunUpToDate

-----------------------------------------------------------------------------
(* Runs that do not overlap                                                *)

OneWriter == \A u, v \in Writers : u = v

\* What the index holds is no newer than what a run has fetched, which is no
\* newer than the page.
MoveInv ==
  \A d \in Ids :
    /\ index[d] <= source[SourceOf[d]]
    /\ \A u \in Writers : Got(u, d) \in Versions =>
         index[d] <= Got(u, d) /\ Got(u, d) <= source[SourceOf[d]]

\* What a step of w makes of what it has fetched.
LEMMA WantStep ==
  ASSUME BaseInv, NEW w \in Writers, Start(w) \/ Advance(w) \/ Kill(w),
         NEW d \in Ids, Got(w, d)' \in Versions
  PROVE  \/ Got(w, d)' = Got(w, d)
         \/ Got(w, d)' = source[SourceOf[d]] /\ stage[w] = "fetching"
<1>0. TypeOK /\ SourceOf[d] \in Sources
  BY SourceOfId DEF BaseInv
<1>1. CASE Start(w)
  BY <1>0, <1>1, NamesDistinct DEF Start, TypeOK, Got
<1>2. ASSUME NEW s \in Sources, Fetch(w, s)
      PROVE  \/ Got(w, d)' = Got(w, d)
             \/ Got(w, d)' = source[SourceOf[d]] /\ stage[w] = "fetching"
  BY <1>0, <1>2, NamesDistinct DEF Fetch, TypeOK, Got
<1>3. ~End(w, "success") /\ ~End(w, "error") /\ ~End(w, None)
  BY <1>0, NamesDistinct DEF End, TypeOK, Got
<1>4. CASE Chunk(w) \/ Sweep(w) \/ Embed(w) \/ Upload(w)
  BY <1>3, <1>4 DEF Chunk, Sweep, Embed, Upload, Got
<1>5. ~Raise(w) /\ ~Kill(w)
  BY <1>3 DEF Raise, Kill
<1> QED
  BY <1>1, <1>2, <1>4, <1>5 DEF Advance

LEMMA StepMoves ==
  ASSUME OneWriter, BaseInv, MoveInv, [Next]_vars
  PROVE  MoveInv' /\ \A d \in Ids : index'[d] >= index[d]
<1>0. /\ TypeOK
      /\ \A d \in Ids : index[d] \in Int /\ source[SourceOf[d]] \in Int
      /\ \A d \in Versions : d \in Int
  BY SourceOfId DEF BaseInv, TypeOK, Versions, Nothing
<1>1. ASSUME NEW w \in Writers, Start(w) \/ Advance(w) \/ Kill(w)
      PROVE  MoveInv' /\ \A d \in Ids : index'[d] >= index[d]
  <2>1. PICK A \in SUBSET pending[w] : Land(w, A)
    BY <1>1, IndexStep
  <2>2. /\ \A d \in A : index'[d] = Got(w, d) /\ Got(w, d) \in Versions /\ d \in Ids
        /\ \A d \in Ids \ A : index'[d] = index[d]
    BY <1>0, <2>1, LandType DEF BaseInv, TypeOK
  <2>3. source' = source
    BY <1>1, SourceStep
  <2>4. \A d \in Ids : index'[d] >= index[d] /\ index'[d] <= source[SourceOf[d]] /\ index'[d] \in Int
    BY <1>0, <2>2 DEF MoveInv
  <2>5. stage[w] = "fetching" => A = {}
    BY DEF BaseInv, CountInv
  <2>6. ASSUME NEW d \in Ids, Got(w, d)' \in Versions
        PROVE  index'[d] <= Got(w, d)' /\ Got(w, d)' <= source[SourceOf[d]]
    <3>1. CASE Got(w, d)' = Got(w, d)
      BY <1>0, <2>2, <2>6, <3>1 DEF MoveInv
    <3>2. CASE Got(w, d)' = source[SourceOf[d]] /\ stage[w] = "fetching"
      BY <1>0, <2>2, <2>4, <2>5, <3>2 DEF MoveInv
    <3> QED
      BY <1>1, <2>6, <3>1, <3>2, WantStep
  <2> QED
    BY <2>3, <2>4, <2>6 DEF MoveInv, OneWriter
<1>2. CASE Edit
  BY <1>0, <1>2, EditType, SourceOfId DEF MoveInv, TypeOK, Got, Versions
<1>3. CASE UNCHANGED vars
  BY <1>0, <1>3 DEF vars, run, MoveInv, Got
<1> QED
  BY <1>1, <1>2, <1>3 DEF Next

(* Runs that do not overlap never put an older version of a chunk over a   *)
(* newer one, however pages change and runs fail and die in between.       *)
THEOREM IndexForward ==
  ASSUME OneWriter
  PROVE  Spec => IndexMovesForward
<1>1. Init => MoveInv
  BY NamesDistinct, SourceOfId DEF Init, MoveInv, Nothing, Got, Has
<1>2. BaseInv /\ MoveInv /\ [Next]_vars => MoveInv'
  BY StepMoves
<1>3. BaseInv /\ MoveInv /\ [Next]_vars => [\A d \in Ids : index'[d] >= index[d]]_vars
  BY StepMoves
<1> QED
  BY <1>1, <1>2, <1>3, InitBase, StepBase, PTL DEF Spec, IndexMovesForward

\* The index only grows.
LEMMA PresentGrows ==
  ASSUME BaseInv, NEW w \in Writers, NEW A \in SUBSET pending[w], Land(w, A)
  PROVE  /\ Present \subseteq Present'
         /\ Cardinality(Present') <= PageSize => Cardinality(Present) <= PageSize
<1>1. Present \subseteq Present' /\ Present' \subseteq Ids
  <2>1. /\ A \subseteq Ids
        /\ \A d \in A : index'[d] \in Versions
        /\ \A d \in Ids \ A : index'[d] = index[d]
    BY LandType DEF BaseInv, TypeOK
  <2> QED
    BY <2>1, NamesDistinct DEF Present
<1>2. Cardinality(Present) <= Cardinality(Present')
  BY <1>1, IdsFinite, FS_Subset
<1> QED
  BY <1>1, <1>2, IdsFinite, SizesAssumption

\* A page that holds the whole index lists all of it.
LEMMA WholePage ==
  ASSUME NEW listed \in SUBSET Present, Cardinality(Present) <= PageSize,
         Cardinality(listed) = IF Cardinality(Present) < PageSize
                               THEN Cardinality(Present) ELSE PageSize
  PROVE  listed = Present
<1>1. Present \in SUBSET Ids
  BY DEF Present
<1>2. Cardinality(listed) = Cardinality(Present) /\ IsFiniteSet(Present)
  BY <1>1, IdsFinite, SizesAssumption
<1> QED
  BY <1>2, FS_Subset

LEMMA StepSpares ==
  ASSUME OneWriter, BaseInv, UnchangedIsSpared, [Next]_vars
  PROVE  UnchangedIsSpared'
<1>0. TypeOK
  BY DEF BaseInv
<1>1. ASSUME NEW w \in Writers, Start(w) \/ Advance(w) \/ Kill(w),
             pending'[w] \subseteq pending[w], want'[w] = want[w],
             Cardinality(Present') <= PageSize, NEW d \in pending'[w],
             index'[d] = index[d]
      PROVE  ~Same(d, index[d], Got(w, d))'
  <2>1. Cardinality(Present) <= PageSize
    BY <1>1, IndexStep, PresentGrows
  <2> QED
    BY <1>1, <2>1 DEF UnchangedIsSpared, Got
<1>2. ASSUME NEW w \in Writers, Start(w) \/ Advance(w) \/ Kill(w),
             Cardinality(Present') <= PageSize, NEW d \in pending'[w]
      PROVE  ~Same(d, index[d], Got(w, d))'
  <2>1. ~End(w, "success") /\ ~End(w, "error") /\ ~End(w, None)
    BY <1>0, <1>2 DEF End, TypeOK
  <2>2. CASE Start(w)
    BY <1>0, <1>2, <2>2 DEF Start, BaseInv, CountInv, TypeOK
  <2>3. ASSUME NEW s \in Sources, Fetch(w, s) PROVE FALSE
    BY <1>0, <1>2, <2>3 DEF Fetch, BaseInv, CountInv, TypeOK
  <2>4. CASE Chunk(w)
    BY <1>0, <1>2, <2>1, <2>4 DEF Chunk, BaseInv, CountInv, TypeOK
  <2>5. CASE Sweep(w)
    <3>1. index' = index /\ want' = want /\ Present' = Present
      BY <2>1, <2>5 DEF Sweep, Present
    <3>2. PICK listed \in SUBSET Present :
            /\ Cardinality(listed) = IF Cardinality(Present) < PageSize
                                     THEN Cardinality(Present) ELSE PageSize
            /\ pending' = [pending EXCEPT ![w] = Stale(w, listed)]
      BY <2>1, <2>5 DEF Sweep
    <3>3. listed = Present
      BY <1>2, <3>1, <3>2, WholePage
    <3>4. d \in Ids /\ (d \notin Present \/ Hash(d, index[d]) # Hash(d, Got(w, d)))
      BY <1>0, <1>2, <3>2, <3>3 DEF Stale, InChunks, Got, TypeOK
    <3>5. CASE d \notin Present
      BY <3>1, <3>4, <3>5, NamesDistinct DEF Present, Same, Has, Got
    <3>6. CASE Hash(d, index[d]) # Hash(d, Got(w, d))
      BY <3>1, <3>6 DEF Hash, Same, Got
    <3> QED
      BY <3>4, <3>5, <3>6
  <2>6. CASE Embed(w)
    BY <1>1, <1>2, <2>6 DEF Embed
  <2>7. CASE Upload(w)
    <3>1. PICK A \in SUBSET Batch(pending[w]) : Land(w, A)
      BY <2>7 DEF Upload
    <3>2. pending'[w] = pending[w] \ Batch(pending[w]) /\ want' = want
      BY <1>0, <2>1, <2>7 DEF Upload, TypeOK
    <3>3. index'[d] = index[d]
      BY <1>0, <1>2, <3>1, <3>2, LandType DEF TypeOK, Batch
    <3> QED
      BY <1>1, <1>2, <3>2, <3>3
  <2>8. ~Raise(w) /\ ~Kill(w)
    BY <2>1 DEF Raise, Kill
  <2> QED
    BY <1>2, <2>2, <2>3, <2>4, <2>5, <2>6, <2>7, <2>8 DEF Advance
<1>3. CASE Edit
  BY <1>0, <1>3, EditType DEF UnchangedIsSpared, Present, Got
<1>4. CASE UNCHANGED vars
  BY <1>4 DEF vars, run, UnchangedIsSpared, Present, Got
<1> QED
  BY <1>2, <1>3, <1>4 DEF Next, UnchangedIsSpared, OneWriter

(* While the index fits one page of hashes, runs that do not overlap       *)
(* neither embed nor send what the index already holds.                    *)
THEOREM SparesUnchanged ==
  ASSUME OneWriter
  PROVE  Spec => []UnchangedIsSpared
<1>1. Init => UnchangedIsSpared
  BY DEF Init, UnchangedIsSpared
<1>2. BaseInv /\ UnchangedIsSpared /\ [Next]_vars => UnchangedIsSpared'
  BY StepSpares
<1> QED
  BY <1>1, <1>2, InitBase, StepBase, PTL DEF Spec
=============================================================================
