----------------------------- MODULE CorpusIndex -----------------------------
(***************************************************************************)
(* The ingest pipeline (ingest/: fetch_all, chunk_all, index_all) as a run *)
(* sees it, for runs of several writers against one search index that has  *)
(* no transactions and no locks:                                           *)
(*                                                                         *)
(*   Start --> Fetch, each source --> Chunk --> Sweep --> Embed --> Upload *)
(*                                                                         *)
(* One action is one await of the pipeline.  Every await can raise, the    *)
(* process can die at any of them, and a batch that is under way may then  *)
(* have reached the index or not.                                          *)
(*                                                                         *)
(* A source is a page, and a version of a page is the sequence of chunks   *)
(* that the splitters make of it.  A chunk id names a source and a place   *)
(* in that sequence and nothing else: a section put in front of the others *)
(* moves every text behind it to the next id, and a page that gets shorter *)
(* leaves its last ids without a chunk.  The embedding service, the search *)
(* service and the web are external.                                       *)
(***************************************************************************)
EXTENDS Integers, Sequences, FiniteSets

CONSTANTS
  Writers,    \* the runs that may be under way at once
  Cli,        \* those of them that are `make ingest` of an operator
  LastId,     \* the chunk ids, in the order of chunks.jsonl: 1 .. LastId
  SourceOf,   \* the source of a chunk id, as its name is spelled
  PlaceOf,    \* the place of a chunk id in its page, from 1
  History,    \* the versions of a page, the same for all
  BatchSize,  \* UPLOAD_BATCH_SIZE
  PageSize,   \* EXISTING_HASHES_PAGE_SIZE
  None

Ids == 1 .. LastId
Sources == {SourceOf[d] : d \in Ids}
Versions == 1 .. Len(History)

\* Not in the index; no run that fetches.
Nothing == 0
\* A source not fetched yet, and one whose fetch failed.
Todo == -1
FetchFailed == -2

ASSUME SizesAssumption ==
  /\ LastId \in Nat /\ BatchSize \in Nat \ {0} /\ PageSize \in Nat \ {0}
ASSUME IdAssumption ==
  /\ \A d \in Ids : PlaceOf[d] \in Nat \ {0}
  /\ \A s \in Sources, v \in Versions : \A k \in 1 .. Len(History[v]) :
       \E d \in Ids : SourceOf[d] = s /\ PlaceOf[d] = k
  /\ \A d, e \in Ids : d < e /\ SourceOf[d] = SourceOf[e] => PlaceOf[d] < PlaceOf[e]
ASSUME WritersAssumption == Cli \subseteq Writers
ASSUME NoneAssumption == None \notin {"success", "error"}
ASSUME HistoryAssumption == Len(History) \in Nat \ {0}

VARIABLES
  source,    \* the version of each page as it is now
  index,     \* the version of the page that each document was made from
  stage,     \* where each run is
  want,      \* what a run has fetched of each source
  pending,   \* the chunks a run has still to upload
  uploaded,  \* index_all's count of uploaded chunks
  outcome,   \* how the last run of a writer ended
  clean      \* history: since its sweep, the index took every document of
             \* this run and none of another

run == <<stage, want, pending, uploaded, outcome, clean>>
vars == <<source, index, run>>

Stages == {"idle", "fetching", "sweeping", "embedding", "uploading"}

TypeOK ==
  /\ source \in [Sources -> Versions]
  /\ index \in [Ids -> Versions \cup {Nothing}]
  /\ stage \in [Writers -> Stages]
  /\ want \in [Writers -> [Sources -> Versions \cup {Nothing, Todo, FetchFailed}]]
  /\ pending \in [Writers -> SUBSET Ids]
  /\ uploaded \in [Writers -> 0 .. LastId]
  /\ outcome \in [Writers -> {None, "success", "error"}]
  /\ clean \in [Writers -> BOOLEAN]

-----------------------------------------------------------------------------
(* Helpers                                                                 *)

\* _split_source numbers the chunks of a page in their order: version v of
\* its page has a chunk for the id d, and which.
Has(d, v) == v \in Versions /\ PlaceOf[d] <= Len(History[v])
ChunkAt(d, v) == History[v][PlaceOf[d]]

\* content_hash: SHA-256 over the four fields, joined by nothing.
Hash(d, v) ==
  LET c == ChunkAt(d, v) IN c.tenant \o SourceOf[d] \o c.section \o c.text

\* What retrieval can tell apart.
Same(d, v, u) == Has(d, v) /\ Has(d, u) /\ ChunkAt(d, v) = ChunkAt(d, u)

\* The next slice of the documents to upload.
Batch(P) == {d \in P : Cardinality({e \in P : e < d}) < BatchSize}

Present == {d \in Ids : index[d] # Nothing}

\* What a run has of the page of d, and the ids of its chunks.jsonl.
Got(w, d) == want[w][SourceOf[d]]
InChunks(w) == {d \in Ids : Has(d, Got(w, d))}

\* The documents of A reach the index as w read them from chunks.jsonl.
Land(w, A) ==
  index' = [d \in Ids |-> IF d \in A THEN Got(w, d) ELSE index[d]]

End(w, o) ==
  /\ stage' = [stage EXCEPT ![w] = "idle"]
  /\ outcome' = [outcome EXCEPT ![w] = o]
  /\ want' = [want EXCEPT ![w] = [s \in Sources |-> Nothing]]
  /\ pending' = [pending EXCEPT ![w] = {}]

-----------------------------------------------------------------------------
(* A run                                                                   *)

\* Mutant: the count goes on from the last run.
StartKeepsCount(w) ==
  /\ stage[w] = "idle"
  /\ stage' = [stage EXCEPT ![w] = "fetching"]
  /\ want' = [want EXCEPT ![w] = [s \in Sources |-> Todo]]
  /\ outcome' = [outcome EXCEPT ![w] = None]
  /\ clean' = [clean EXCEPT ![w] = FALSE]
  /\ UNCHANGED <<source, index, pending, uploaded>>

\* fetch_all loads the manifest and starts one coroutine for each source.
Start(w) ==
  /\ stage[w] = "idle"
  /\ stage' = [stage EXCEPT ![w] = "fetching"]
  /\ want' = [want EXCEPT ![w] = [s \in Sources |-> Todo]]
  /\ uploaded' = [uploaded EXCEPT ![w] = 0]
  /\ outcome' = [outcome EXCEPT ![w] = None]
  /\ clean' = [clean EXCEPT ![w] = FALSE]
  /\ UNCHANGED <<source, index, pending>>

\* Mutant: a source that fails falls back to a copy of its first version.
FetchFallsBack(w, s) ==
  /\ stage[w] = "fetching"
  /\ want[w][s] = Todo
  /\ \E got \in {source[s], 1} : want' = [want EXCEPT ![w][s] = got]
  /\ UNCHANGED <<source, index, stage, pending, uploaded, outcome, clean>>

\* _fetch_one of one source answers, with the page as it is now or, after
\* its retries, not at all: a failed source does not stop the others.
Fetch(w, s) ==
  /\ stage[w] = "fetching"
  /\ want[w][s] = Todo
  /\ \E got \in {source[s], FetchFailed} : want' = [want EXCEPT ![w][s] = got]
  /\ UNCHANGED <<source, index, stage, pending, uploaded, outcome, clean>>

AllFailed(w) == \A s \in Sources : want[w][s] = FetchFailed

\* All sources have answered; chunk_all writes chunks.jsonl.  The command
\* line stops first if all of them failed; POST /ingest does not look.
Chunk(w) ==
  /\ stage[w] = "fetching"
  /\ \A s \in Sources : want[w][s] # Todo
  /\ \/ /\ w \in Cli /\ AllFailed(w)
        /\ End(w, "error")
     \/ /\ ~(w \in Cli /\ AllFailed(w))
        /\ stage' = [stage EXCEPT ![w] = "sweeping"]
        /\ UNCHANGED <<want, pending, outcome>>
  /\ UNCHANGED <<source, index, uploaded, clean>>

\* Mutant: chunks that the index already holds are taken to be unchanged.
StaleIdOnly(w, listed) == InChunks(w) \ listed

\* Mutant: everything is sent again.
StaleAll(w, listed) == InChunks(w)

\* The chunks whose hash is not the one listed for them.
Stale(w, listed) ==
  {d \in InChunks(w) : d \notin listed \/ Hash(d, index[d]) # Hash(d, Got(w, d))}

(* index_all, with the index there: one page of (id, content_hash), and    *)
(* what differs from it is pending.  Nothing pending, nothing to embed.    *)
Sweep(w) ==
  /\ stage[w] = "sweeping"
  /\ \E listed \in SUBSET Present :
       /\ Cardinality(listed) = IF Cardinality(Present) < PageSize
                                THEN Cardinality(Present) ELSE PageSize
       /\ \/ Stale(w, listed) = {} /\ End(w, "success")
          \/ /\ Stale(w, listed) # {}
             /\ pending' = [pending EXCEPT ![w] = Stale(w, listed)]
             /\ stage' = [stage EXCEPT ![w] = "embedding"]
             /\ UNCHANGED <<want, outcome>>
  /\ clean' = [clean EXCEPT ![w] = TRUE]
  /\ UNCHANGED <<source, index, uploaded>>

\* The embeddings of the pending chunks are there.
Embed(w) ==
  /\ stage[w] = "embedding"
  /\ stage' = [stage EXCEPT ![w] = "uploading"]
  /\ UNCHANGED <<source, index, want, pending, uploaded, outcome, clean>>

\* What landing the documents A of w does to the histories.
Soils(w, A, whole) ==
  clean' = [u \in Writers |-> clean[u] /\ (IF u = w THEN whole ELSE A = {})]

(* One batch is sent and answered.  The service answers for each document  *)
(* whether it took it; index_all does not look at the answers.             *)
Upload(w) ==
  /\ stage[w] = "uploading"
  /\ LET B == Batch(pending[w]) IN
       /\ uploaded' = [uploaded EXCEPT ![w] = @ + Cardinality(B)]
       /\ \E A \in SUBSET B :
            /\ Land(w, A)
            /\ Soils(w, A, A = B)
       /\ \/ pending[w] = B /\ End(w, "success")
          \/ /\ pending[w] # B
             /\ pending' = [pending EXCEPT ![w] = @ \ B]
             /\ UNCHANGED <<stage, want, outcome>>
  /\ UNCHANGED source

\* What a batch that is cut off has already put into the index.
CutOff(w) ==
  \E A \in SUBSET (IF stage[w] = "uploading" THEN Batch(pending[w]) ELSE {}) :
    /\ Land(w, A)
    /\ Soils(w, A, FALSE)

\* An await raises: the manifest, the index, the models or the upload.
Raise(w) ==
  /\ stage[w] # "idle"
  /\ CutOff(w)
  /\ End(w, "error")
  /\ UNCHANGED <<source, uploaded>>

\* The process dies, with all it held.
Kill(w) ==
  /\ stage[w] # "idle"
  /\ CutOff(w)
  /\ End(w, None)
  /\ uploaded' = [uploaded EXCEPT ![w] = 0]
  /\ UNCHANGED source

\* A page changes.
Edit ==
  /\ \E s \in Sources :
       /\ source[s] < Len(History)
       /\ source' = [source EXCEPT ![s] = @ + 1]
  /\ UNCHANGED <<index, run>>

-----------------------------------------------------------------------------

Init ==
  /\ source = [s \in Sources |-> 1]
  /\ index = [d \in Ids |-> Nothing]
  /\ stage = [w \in Writers |-> "idle"]
  /\ want = [w \in Writers |-> [s \in Sources |-> Nothing]]
  /\ pending = [w \in Writers |-> {}]
  /\ uploaded = [w \in Writers |-> 0]
  /\ outcome = [w \in Writers |-> None]
  /\ clean = [w \in Writers |-> FALSE]

Advance(w) ==
  \/ \E s \in Sources : Fetch(w, s)
  \/ Chunk(w) \/ Sweep(w) \/ Embed(w) \/ Upload(w) \/ Raise(w)

Next == (\E w \in Writers : Start(w) \/ Advance(w) \/ Kill(w)) \/ Edit

Spec == Init /\ [][Next]_vars

-----------------------------------------------------------------------------
(* Properties                                                              *)

\* The step in which a run of w ends well.
Succeeds(w) == stage[w] # "idle" /\ stage'[w] = "idle" /\ outcome'[w] = "success"

(* A run that succeeds, whatever earlier runs left behind when they failed *)
(* or died, and with no other run's documents and no refused document      *)
(* since its sweep, leaves every chunk it fetched in the index, as it was  *)
(* fetched: docs/security.md:157, "a killed run can be retried".           *)
CleanRunUpToDate ==
  [][ \A w \in Writers : Succeeds(w) /\ clean'[w] =>
        \A d \in InChunks(w) : Same(d, index'[d], Got(w, d)) ]_vars

(* Runs that do not overlap never put an older version of a chunk over a   *)
(* newer one, however the pages changed and the runs failed in between.    *)
IndexMovesForward == [][ \A d \in Ids : index'[d] >= index[d] ]_vars

(* A chunk that the index holds as it is now is neither embedded nor sent  *)
(* again (docs/deployment.md:174, "content-hash sweep skips unchanged      *)
(* chunks"), as long as one page lists the index and runs do not overlap.  *)
UnchangedIsSpared ==
  Cardinality(Present) <= PageSize =>
    \A w \in Writers : \A d \in pending[w] : ~Same(d, index[d], Got(w, d))

(* index.py:111, "Bring the search index up to date with chunks.jsonl":    *)
(* after a clean run no document is left whose chunk is gone.              *)
GoneChunksLeave ==
  [][ \A w \in Writers : Succeeds(w) /\ clean'[w] =>
        \A d \in Ids \ InChunks(w) :
          Got(w, d) \in Versions => index'[d] = Nothing ]_vars

=============================================================================
