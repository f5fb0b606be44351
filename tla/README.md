# Specifications of rag-on-azure

TLA+ models of the retrieval service in `app/` and of the ingest pipeline in
`ingest/`, TLC instances of them, and proofs of their main properties in TLAPS.
Everything is translated from the source; each definition's lines are in
`PROJECT.json` under `map`. Paths below are relative to the repository.

## The system

`rag-on-azure` answers questions of tenants over a corpus of regulatory pages.
A replica is one Python process with one asyncio event loop: code between two
awaits runs without interruption, everything else interleaves. Container Apps
runs up to three replicas and may kill one at any time.

| Component | Code | State | Operations | What makes it correct |
|---|---|---|---|---|
| Signing-key cache | `key_vault.py` | one slot with an expiry, a lock and its queue | `get_signing_key`, `ping` | one fetch at a time, a key is served at most one TTL after it was replaced, never one older than the last, none from before a restart |
| Authentication gate | `auth.py`, `settings.py` | none of its own | `get_current_tenant`, `get_current_admin` | who is admitted with which key; 503 only for a verifier that has no key |
| Query route and graph | `api/routes.py`, `graph.py`, `nodes/` | the `GraphState` of each request | `query`, three nodes | a tenant sees its own chunks only, answers cite what was retrieved |
| Model client | `clients/llm.py` | batches and attempts of a call | `complete`, `embed` | retries end; the pauses keep a run within the quota and leave room for others |
| Search client | `clients/search.py` | none | `hybrid_search` | the tenant filter is always there |
| Metrics | `metrics.py` | counters of the process | `inc`, `observe` | they add up on every path |
| Ingest route and task | `api/routes.py` | the lock of the replica, the clients of a task | `ingest`, `_run_ingest_pipeline` | one task per replica, the lock comes back, a success has closed what it opened |
| Ingest pipeline | `ingest/chunk.py`, `index.py`, `__main__.py` | chunks to upload | `chunk_all`, `index_all` | a run brings the index up to date after any history of failures, and sends nothing twice |
| Page cache and phases | `ingest/fetch.py`, `chunk.py`, `__main__.py` | two files per source, a listing and `chunks.jsonl`, on disk | `fetch_all`, `chunk_all`, the commands | what a run reports and lists is what is on disk, and what it gives to the index, after any crash |
| Readiness and lifespan | `main.py`, `api/routes.py` | `app.state` | `lifespan`, `readyz` | no traffic without a verifiable key |
| Index schema, snapshot, token mint, Bicep, CI | | none, or declarative | | not modelled |

How they interact: every protected route depends on the gate, which awaits the
cache, which awaits Key Vault. The query route runs the graph, whose nodes
await the model deployment and the search index. The ingest route leaves a
background task behind that runs the pipeline, which writes to the same index;
`make ingest` of an operator runs the same pipeline with no lock. The vault, the
deployment, the index and the web are external: they are modelled by how the
code uses them. The deployment's quota of tokens per minute is shared by all
that embed, on all replicas, and nobody is told what is left of it.

What is hard: calls that queue on the cache's lock while the secret is rotated
or the vault is down; chunks that change hands while a request is under way;
runs of ingest that die between two batches or two files, or overlap; chunks
whose ids move when a page grows; commands that read files which another run
left; a quota that is used behind one's back; error paths that must release a
lock, close clients and count each request once. `PROJECT.json`
lists these hazards, each at its line, with the properties that cover it.

## The modules

```
SigningKey <-- refines -- KeyCache <-- extends -- AuthGate
QueryContract <-- refines -- QueryPipeline
CorpusIndex <-- extends -- IngestGate
DocCache <-- extends -- IngestCommands
EmbedPace
```

`MC*` modules hold the constants of an instance; `*_proofs` modules the proofs.
Operators named in a comment `Mutant:` are faulty variants of the definition
that follows, with which the properties were tried: each property fails on one
of them.

**KeyCache** (`key_vault.py`, boot in `main.py`, the probe in `api/routes.py`).
A call of `get_or_fetch` is at most four steps: `Call` up to its first
suspension, `Resume` when the lock is handed to it, `VaultAnswers`, and `Store`
or `FetchFails`. `asyncio.Lock` is first come, first served (`queue`). `now[c]`
is the local variable of that name, which is read *before* the fetch and decides
the expiry. A value of the secret is its version; `Garbage` are versions that do
not parse. `Stop` and `Boot` are the death of the replica and the lifespan with
its ping; the clock, rotations and outages are free. `replacedAt`, `calledAt` and
`bootVersion` are history that only properties read.

**SigningKey** is what callers may rely on, with no cache in it: a call ends
with a key no older than any earlier one of the process, which the vault held
less than a TTL ago or since the call began, or with an error during an outage.
`KeepsPromise` is the refinement: `floor` is the slot, or the boot's version
while the slot is empty.

**AuthGate** extends KeyCache with the credential, route and status of each
request. `get_signing_key` is the only await of `get_current_tenant`, so the
verdict falls in the step that ends the call. Development mode
(`enable_dev_auth`) is chosen when a process starts, since `get_settings` is
cached for its life.

**QueryPipeline** (`query`, the graph, its nodes, `llm.py`, `hybrid_search`).
`pc` names the suspension a request is in; one action per answer of an upstream:
good, transient (retried up to `MAX_ATTEMPTS`), unparsable, or fatal. `metrics`
holds the counters and the histograms' counts; an exception that `query` does not
catch is counted by the node at most (`Raise`). `Upload` is what ingest does to
the index meanwhile: it adds chunks and may move one to another tenant.

**QueryContract** is the promise to a tenant: one look at its own chunks, at one
moment; an answer made of those or a refusal. `KeepsContract` is the refinement.

**CorpusIndex** (`fetch_all`, `chunk_all`, `index_all` as one run). Several
writers work on one index without locks or transactions. Each await is an action
and may raise; the process may die at any, and of a batch under way any part may
have landed. `History` lists the versions of a page, each the sequence of chunks
(tenant, section, text) that the splitters make of it; a chunk id is a source and
a place in that sequence, as `_split_source` numbers them, so that a section put
in front moves every later text to the next id and a shorter page leaves ids
behind. `Hash` joins the fields without separators as `content_hash` does. A
document that the service refuses inside a successful answer is part of `Upload`.
`clean` is history: since its sweep, all of the run's documents were taken, and
no other run's.

**IngestGate** extends it with `POST /ingest`: `Accept` or `Conflict`, `Begin`
after the response, `Run` for the pipeline's steps, with the lock and the counters
of each process. A run that gets to the index opens a credential and three
clients (`open`); `Close` closes them in the order of the `finally` blocks, where
the embedder takes the credential it was given with it, and a close that raises
skips to the credential and makes an error of the run (`failing`). `OpenFails` is
a client that cannot be built: those before it stay open, the credential is closed
and the run is an error. `Finish` counts the run and frees the lock. `KillReplica`
drops a task, its lock and its counters. `Summary` feeds the counter of chunks as
the code does; no property is about it (see Observations).

**DocCache** (`fetch.py`). Each answer is handled without an await, so a crash
cuts at most one (`Cut`: in the Markdown, between the files, in the sidecar) or
the listing, after any of its rows. `Break` is an exception that `_fetch_one` does
not catch: it leaves `gather` at once (`raising`), while answers that have arrived
are still handled until `Abort`. `md` names the bytes a file was made from; `Torn`
is a file cut short. A torn sidecar does not parse and counts as none; a torn
Markdown file exists, and that is all that the code asks of it.

**IngestCommands** extends it with `chunks.jsonl` and the commands: `ingest fetch`,
`chunk` and `index` run one phase, `ingest all` and `POST /ingest` all three, of
which only the command line stops when every source failed. `ChunkCut` is a death
while `chunks.jsonl` is being written. What `index_all` makes of the rows is
CorpusIndex, whose `want` is this module's `chunks`: that they are the same is
`IndexedIsReported`.

**EmbedPace** (`AzureOpenAIClient.embed`). Calls send their batches with a pause
before every batch but the first, and try each a few times. `used` holds the
tokens that the deployment took, by age, so that `Taken` is the sum of the last
minute: the window slides, and no call sees it. `AnswerLost` is a batch that was
taken but whose answer never came, after which the SDK or tenacity sends it
again and pays twice. `DeployedPace` in the MC module ties the instance to the
constants of `llm.py`: a pause of 34 s, two batches at most in any minute.

## The runs

All numbers are of the instances in the `.cfg` files.

| Run | Instance | Shows |
|---|---|---|
| `KeyCache` | 3 calls, TTL 2, clock to 3, 3 versions of which one is garbage; symmetric calls | `LockDiscipline`, `SlotWithinTTL`, `KeyWithinTTL`, `SlotMovesForward`, `OneFetchPerExpiry`, `NothingFromBeforeBoot`, and `KeepsPromise` |
| `AuthGate` | 2 requests, TTL 1, clock to 2, 3 kinds of credential, both modes | `AdmittedKeyRecent`, `DegradedMeansNoKey`, `EveryRequestAnswered` |
| `QueryPipeline` | 2 requests, 2 tenants and a malformed one, 2 chunks, 3 attempts | `TenantIsolation`, `Grounded`, `MetricsBalance`, `KeepsContract`, `EveryRequestEnds` |
| `CorpusIndex` | 1 writer at a time, 2 pages of up to 3 chunks in 4 versions, batches of 2, a page of 4 hashes | `CleanRunUpToDate`, `IndexMovesForward`, `UnchangedIsSpared` |
| `IngestGate` | 1 replica with 2 tasks, an operator's run, 2 requests, 1 chunk of 2 versions | `LockGuardsTask`, `RunsBalance`, `SuccessMeansReleased`, `CleanRunUpToDate` with overlapping runs, `LockComesBack` |
| `IngestCommands` | 2 pages, 3 versions of which one does not convert, 2 attempts, all five commands | `ResultMatchesFile`, `ListedIsOnDisk`, `IndexedIsReported`, `EveryRunEnds` |
| `EmbedPace` | a run of 3 batches and questions of 1 text, 2 attempts; ticks of 12 s, so a minute of 5 and a pause of 3 | `PacedFits`, `EveryEmbedEnds` |

Why these bounds. Three calls are the fewest with two in the queue, so that the
second of them resumes on a slot that the first has filled; a TTL of two ticks
lets a slow fetch use part of it; three versions allow a bad key and its repair.
Two requests are the fewest that interfere; `TopK` 1 of two chunks lets a chunk
match and not be returned. Two pages
of three chunks make a full and a partial batch, outgrow a page of four hashes,
and differ in what has failed; the four versions put a section in front, add one,
and shrink the page while it changes hands. Two tasks of one replica are the
fewest that compete for its lock, the operator's run is the one that does not.
Two pages of `IngestCommands` let one be complete while the other is cut or
broken. In `EmbedPace` the pause and the minute have the proportions of the code
(two pauses are longer than a minute, one is not), three batches make a window
that contains a first batch and one that does not, and a quota one token above
two batches lets a single question fit and two collide.
No specification deadlocks, so
deadlock is checked everywhere.

Five runs check a sentence of the repository that the code does not keep:

| Run | Sentence | What happens |
|---|---|---|
| `KeyCacheReady` | `key_vault.py:131-136`, the PEM check keeps `/readyz` from being green "while every authenticated request 401s on a key the JWT verifier cannot parse" | the slot can still hold the bad key when the probe, which looks past it, turns green |
| `QueryUncounted` | `metrics.py:32`, "Total /query requests received, labelled by tenant and outcome", and `metrics.py:62`, "End-to-end /query handler wall-clock latency" | the handler counts answers, 400s and 502s; any other exception of the graph, such as a model that refuses every attempt, becomes a 500 that neither metric knows of |
| `CorpusRaceStale` | `api/routes.py:194-196`, a race between replicas is "wasteful but not destructive" | of two overlapping runs the one that fetched first may upload last, and put the old chunk back until a later run |
| `CorpusOrphans` | `ingest/index.py:111`, "Bring the search index up to date with chunks.jsonl" | documents of chunks that are gone stay |
| `DocCacheRevert` | `docs/architecture.md:138-139`, "Re-runs skip files whose SHA-256 hasn't changed since the last fetch" | after a crash between the two files and a page that goes back to its earlier bytes, the file that is skipped holds something else |

### Fairness

Safety is checked under `[][Next]_vars` alone or under the fair specification of
its run. Liveness assumes weak fairness of the steps of a request or a run that
is under way, and of nothing else:

- `AuthFairSpec`: `AwaitKey`. The event loop runs what is ready and the SDK
  bounds each wait for the vault: an answer or an error comes. No outage need
  end.
- `QueryPipeline!FairSpec`: `Step`. Every upstream call has a timeout in its SDK.
  Nothing makes an answer a good one.
- `GateFairSpec`: `TaskStep`. Starlette runs the background task after the
  response; the awaits of the pipeline have timeouts.
- `CmdFairSpec`: `httpx` bounds each read of a fetch, and the rest of a command
  does not wait for anything. The bound is per read: that a server does not drip
  its page for ever is assumed of the web, here and in `GateFairSpec`.
- `EmbedPace!FairSpec`: `Tick` and the steps of a call. asyncio wakes who sleeps,
  and the SDK answers or raises after its timeout and its own count of retries.
  The deployment is not assumed to take anything; that the SDK's own resending
  stops is assumed of the SDK (`AnswerLost` is not fair).

No request, command, rotation, kill, edit or recovery is ever assumed to happen.

## The proofs

TLAPS proves these for every value of the constants that satisfies the named
assumptions of the modules.

| Module | Theorems | Argument |
|---|---|---|
| `KeyCache_proofs` | `TypeCorrect`, `LockCorrect`, `SlotFreshness`, `BootPurgesOldKeys`, `KeyFreshness`, `SlotMonotone`, `OneFetch`, `KeepsItsPromise` | below |
| `QueryPipeline_proofs` | `TypeCorrect`, `TenantsIsolated`, `AnswersGrounded`, `PipelineKeepsContract`, `MetricsBalanced` | what a request holds is fixed by where it is: no chunks before the search, the tenant's own after it, and the response agrees with the node that it left from; the counters below |
| `CorpusIndex_proofs` | `TypeCorrect`, `CleanRuns`, `IndexForward`, `SparesUnchanged` | below |
| `DocCache_proofs` | `TypeCorrect`, `ResultsMatch`, `ListingMatches` | if a page only moves forward, a sidecar that names the served bytes was written after the Markdown of those bytes, and no crash has touched the Markdown since |
| `AuthGate_proofs` | `GateUsesCache`, `AuthTypeCorrect`, `DegradedOnly`, `AdmittedOnRecentKey` | a verdict falls in the step that ends a call of the cache, by what the call ended with; the rest is the invariant of KeyCache and that nobody fetches over a fresh slot |
| `IngestCommands_proofs` | `CommandsUseCache`, `CmdTypeCorrect`, `CmdResultsMatch`, `CmdListingMatches`, `HandedOn` | below |
| `IngestGate_proofs` | `GateUsesPipeline`, `GateTypeCorrect`, `LockHolds`, `RunsCounted`, `SuccessReleased`, `GateCleanRuns` | below |
| `EmbedPace_proofs` | `TypeCorrect`, `PacedNeverRefused` | below |

*KeyCache.* Freshness is not inductive: it needs that an answer on its way back
was current at some moment since the caller read the clock
(`HeldUntil(reply[c]) >= now[c]`), and that the same holds of the slot and the
moment its TTL counts from. Monotony needs the lock: since only the holder
fetches, no answer under way is older than the slot. Both rest on
`LockDiscipline`, whose queue part is proved as "no duplicates, and exactly the
waiting calls". `OneFetch` needs that the slot is not fresh while the holder of
the lock fetches. The refinement maps each step of the cache to a step of
`SigningKey` or to none.

*QueryPipeline, the counters.* `MetricsBalanced` holds for every finite set of
requests (`RequestsAssumption`: a process receives finitely many). It says of the
errors of `query` only what anyone may rely on: each is a request that failed, and
every 400 and 502 is among them. That a 500 is not, against what `metrics.py`
says, is the finding of `QueryUncounted`. The invariant is sharper: where a
request is, what it was answered and where it failed fix the set of counters it
accounts for (`Owes`), and each counter is the number of requests that owe it
(`MetricsInv`), from which the bounds follow by comparing sets. A step moves one request, and adds one to exactly the counters
that this request begins to owe: one lemma on cardinality
(`AccountsInv`), and one
per kind of step for what it owes before and after.

*CorpusIndex.* `CleanRuns` holds for any number of overlapping writers. Its
invariant says of a clean run between its sweep and its end that every chunk it
has fetched is pending or in the index as fetched; the sweep establishes it if
hashes tell the versions of a chunk apart (`HashesDistinct`, which is SHA-256
without collisions *and* no two versions that join to the same text; the code
joins the four fields with no separator, so the second is an assumption about
the corpus). The count of uploads needs that pending and uploaded chunks
together are at most all chunks. `IndexForward` and `SparesUnchanged` assume
runs that do not overlap (`OneWriter`); `CorpusRaceStale` shows that the first
needs it.

*DocCache.* `ResultsMatch` and `ListingMatches` assume `~Reverts`;
`DocCacheRevert` shows that they need it.

*IngestCommands.* Every command is a behaviour of DocCache (`CommandsUseCache`),
so its theorems hold of the commands (`CmdResultsMatch`, `CmdListingMatches`).
`HandedOn` needs to know, phase by phase,
what a run of all phases has done: while it chunks, its results are listed as
reported and their files are whole; after that the rows are those results. It
assumes `~Reverts` as well.

*IngestGate.* A step of the route is a step of CorpusIndex or leaves the pipeline
alone (`GateUsesPipeline`), so `CleanRuns` carries over (`GateCleanRuns`). The
properties of the gate are not inductive one by one: a request is only counted
once because the lock names the task that will count it, and a success has closed
everything only because of the order of the closes. The invariant (`GateInv`) has
two parts for each task: where it is against lock and pipeline (`Guards`), and
which of the clients are still open given the one that is being closed (`Opens`);
and one for each replica (`Counts`). `GateInv` holds for any number of replicas and of tasks
per replica.

*EmbedPace.* The pause of one call bounds a sum over all calls and ages, so
`PacedFits` needs an invariant of each call (`Paced`): of what it has taken since
its last lost answer, each age holds one batch at most, and two that are taken
are a pause apart; while it sleeps, the age of the last one and the rest of the
pause add up to a pause at least, so that it is a pause old when the call asks
again.
With `2 * Pause >= Minute` (`PaceAssumption`) at most two batches are in the
minute, and at most one while the call asks for the next; the quota itself bounds
`Taken`, since the deployment refuses what would not fit. The rest is arithmetic
of sums. `SumFunction` is a fold, whose recursive function is a `CHOOSE` to the
prover, and the library's induction takes an operator as a parameter: the module
therefore proves that the fold unfolds (`SumUnfolds`) and what it needs of sums
(one term, two terms, order, splitting off a call) by induction over subsets
carried out by hand, from the well-foundedness of strict inclusion between finite
sets. It assumes finitely many calls (`CallsAssumption`), as there are.

Only model-checked: liveness (`EveryRequestAnswered`, `EveryRequestEnds`,
`LockComesBack`, `EveryRunEnds`, `EveryEmbedEnds`), which is out of the prover's
reach. Every invariant and every other action property that a run checks is
proved; of the conditions in a theorem's `ASSUME`, `HashesDistinct`, `OneWriter`
and `~Reverts` are about the corpus and the operators and are discussed above,
and `CorpusRaceStale` and `DocCacheRevert` show what happens without the last two.

## Observations

- `llm.py:13` speaks of 20 % headroom under the quota of 30,000 tokens per minute.
  The pace of 24,000 per minute holds on average; in a single minute two batches
  of 13,600 fall, which leaves 2,800 (`DeployedPace`) for the questions of all
  replicas together. `PacedFits` is stated with what is left.
- A lost answer of one batch breaks that promise for a minute, since its tokens
  are taken and the batch goes out again: hence `lost` in `PacedFits`.
- The command line refuses to go on when all sources failed and the route does
  not; with no chunks, the route's run leaves the index alone and is a success.

- `api/routes.py:173-175` says that "the only ValueError path through the graph" is
  the tenant id's validation. pydantic's `ValidationError` is a `ValueError` too:
  an answer of the model that does not validate (`Unparsable`) and a document of
  the index that does not (`SearchFails`) become a 400 as well.
- `metrics.py:80-83` calls `ingest_chunks_indexed_total` "Total chunks uploaded to
  the search index across all /ingest runs". It is neither: `index_all` hands its
  count over when it returns (`api/routes.py:256`), so that what a run had uploaded
  before it failed is never counted, and the count is of what was sent
  (`index.py:145`), so that a document which the index refused is.
- The clients of a task are built before the `try` that closes them
  (`api/routes.py:233-248`): if one cannot be built, those before it are never
  closed (`OpenFails`). The run is an error, and the replica goes on with them.
- `ingest index` on its own reads what a cut `ingest chunk` left of
  `chunks.jsonl`, without a look at the listing. A torn row raises; a shorter file
  is indexed as it is, deletes nothing, and its missing chunks come with the next
  whole one. `IndexedIsReported` speaks of runs of all phases.

## Not modelled

- The shutdown of the lifespan: three closes in a row, after which the process
  ends and no state is left to be wrong. Closing where the process goes on, in the
  task of `POST /ingest`, is modelled. The checks of `/readyz` other than Key
  Vault's, and their timeouts: each reads one service and keeps nothing.
- `invalidate` of the key cache, `upload_chunks` and `list_existing_hashes` of the
  search client, which nothing calls; `OpenAIDirectClient`, whose methods raise.
- `ingest/schema.py`, which builds one constant; `eval/snapshot_corpus.py` and
  `scripts/mint-token.py`, scripts that read once and write once; Bicep, CI, and
  the demo. There is no behaviour over time in these.
- Where the splitters cut a text (a version of a page is the sequence they make),
  and two sources of the manifest with one id.
- A batch of a killed run that reaches the index only after the next run has
  started, and the delay between an upload and the search that sees it.
- A line of `.fetched.jsonl` that is torn and still parses.
- The quota's view of a token estimate that is too low, and the backoff's growth
  and jitter: a wait of one length stands for all.
- Formatting of prompts, answers, logs and OData text; vectors and scores; metric
  label cardinality; how long things take other than in KeyCache and EmbedPace.

## Plan

Done: KeyCache with SigningKey; AuthGate; QueryPipeline with QueryContract;
CorpusIndex with pages of several chunks; IngestGate with the closing of clients;
DocCache and IngestCommands; EmbedPace; and the proofs above.

Next: theorems that join the components. What `IngestCommands` hands on is
what `CorpusIndex` fetches, and what a clean run leaves in the index is what
`QueryPipeline` finds; each is proved on its own side, and the join is an
argument of this page. Liveness stays with the runs.
