--------------------------- MODULE QueryPipeline ---------------------------
(***************************************************************************)
(* The handler of POST /query (api/routes.py) and the graph it runs        *)
(* (graph.py: understand, retrieve, generate), for requests that run       *)
(* concurrently on one event loop against one model deployment and one     *)
(* search index, while ingest changes the index under them.                *)
(*                                                                         *)
(*   understand --> embed --> search --> retrieved --> generate --> strict *)
(*                                           |                             *)
(*                                           +-- empty retrieval           *)
(*                                                                         *)
(* One value of pc is one suspension: the request waits for an upstream    *)
(* call, or (retrieved) for the graph to run its next node.  The model     *)
(* deployment and the search service are external.  An upstream attempt    *)
(* ends in one of                                                          *)
(*                                                                         *)
(*   ok         an answer that parses                                      *)
(*   transient  RateLimitError, APIConnectionError, APITimeoutError:       *)
(*              tenacity tries again, MAX_ATTEMPTS attempts in all         *)
(*   unparsable the text does not validate against the schema: pydantic's  *)
(*              ValidationError, which is a ValueError                     *)
(*   refusal    message.parsed is None: AttributeError in the node         *)
(*   fatal      any other exception of the SDK                             *)
(***************************************************************************)
EXTENDS Integers, FiniteSets

CONSTANTS
  Requests,     \* the requests, each served once
  Tenants,      \* tenant ids that match ^[a-z0-9-]+$
  BadTenant,    \* a tenant id in a valid token that does not
  Docs,         \* ids of chunks of the index
  Invented,     \* an id that the index does not hold
  Absent,       \* not in the index
  None,
  MAX_ATTEMPTS, \* attempts per upstream call (clients/llm.py)
  TopK          \* the top_k of the payload

ASSUME AttemptsAssumption == MAX_ATTEMPTS \in Nat \ {0}
ASSUME RequestsAssumption == IsFiniteSet(Requests)
ASSUME TopKAssumption == TopK \in Nat \ {0}
ASSUME NamesAssumption ==
  /\ BadTenant \notin Tenants
  /\ Absent \notin Tenants \cup {BadTenant, None}
  /\ Invented \notin Docs
  /\ None \notin Tenants \cup {BadTenant}

VARIABLES
  corpus,     \* index: the tenant_id of each chunk, or Absent
  pc,         \* where each request is
  tenant,     \* ctx.tenant_id
  attempt,    \* attempts of the upstream call under way
  completes,  \* calls of llm.complete so far
  retrieved,  \* state.retrieved_chunks: ids with the tenant they came with
  response,   \* the HTTP response, or None
  failedIn,   \* the node that raised, None if none did
  metrics     \* the Prometheus counters and the counts of the histograms

request == <<pc, tenant, attempt, completes, retrieved, response, failedIn>>
vars == <<corpus, request, metrics>>

Chunks == [id : Docs, tenant : Tenants]
Upstream == {"understand", "embed", "generate", "strict"}
Statuses == {200, 400, 500, 502}
Responses == [status : Statuses, text : {None, "model", "none_found"}, cited : SUBSET Docs]

ASSUME NoneAssumption ==
  None \notin Responses \cup {"model", "none_found", "understand", "retrieve", "generate"}

Counters == {"queriesSuccess", "queriesError", "totalRequest", "retrievalErrors",
             "retrievalLatency", "generationErrors", "generationLatency"}

TypeOK ==
  /\ corpus \in [Docs -> Tenants \cup {Absent}]
  /\ pc \in [Requests -> {"idle", "search", "retrieved", "done"} \cup Upstream]
  /\ tenant \in [Requests -> Tenants \cup {BadTenant, None}]
  /\ attempt \in [Requests -> 0 .. MAX_ATTEMPTS]
  /\ completes \in [Requests -> 0 .. 3]
  /\ retrieved \in [Requests -> SUBSET Chunks]
  /\ response \in [Requests -> Responses \cup {None}]
  /\ failedIn \in [Requests -> {None, "understand", "retrieve", "generate"}]
  /\ metrics \in [Counters -> Nat]

-----------------------------------------------------------------------------
(* Helpers                                                                 *)

Ids(chunks) == {ch.id : ch \in chunks}

\* The counters in C go up by one.
Count(C) == metrics' = [k \in Counters |-> metrics[k] + IF k \in C THEN 1 ELSE 0]

\* r sends an upstream call: its first attempt.
Send(r, where) ==
  /\ pc' = [pc EXCEPT ![r] = where]
  /\ attempt' = [attempt EXCEPT ![r] = 1]
  /\ completes' = IF where = "embed" THEN completes
                  ELSE [completes EXCEPT ![r] = @ + 1]

Finish(r, s, text, cited) ==
  /\ pc' = [pc EXCEPT ![r] = "done"]
  /\ attempt' = [attempt EXCEPT ![r] = 0]
  /\ response' = [response EXCEPT ![r] = [status |-> s, text |-> text, cited |-> cited]]
  /\ UNCHANGED <<corpus, tenant, completes, retrieved>>

\* Mutant: the ValueError path forgets the latency histogram.
RouteCountsNoLatency(s) ==
  IF s = 400 THEN {"queriesError"}
  ELSE IF s = 502 THEN {"queriesError", "totalRequest"} ELSE {}

(* How the route answers an exception: CitationContractError is a 502 and  *)
(* a ValueError a 400, both counted; any other exception is FastAPI's 500, *)
(* which no counter of the route sees.                                     *)
RouteCounts(s) == IF s \in {400, 502} THEN {"queriesError", "totalRequest"} ELSE {}

\* What the node itself counts when an exception leaves it.
NodeCounts(node) ==
  CASE node = "understand" -> {}
    [] node = "retrieve"   -> {"retrievalErrors", "retrievalLatency"}
    [] node = "generate"   -> {"generationErrors", "generationLatency"}

\* An exception leaves a node, and the handler with status s.
Raise(r, node, s) ==
  /\ Finish(r, s, None, {})
  /\ failedIn' = [failedIn EXCEPT ![r] = node]
  /\ Count(NodeCounts(node) \cup RouteCounts(s))

NodeOf(p) ==
  CASE p = "understand" -> "understand"
    [] p \in {"embed", "search"} -> "retrieve"
    [] p \in {"generate", "strict"} -> "generate"

-----------------------------------------------------------------------------
(* The route and the nodes                                                 *)

\* POST /query with a verified token; the graph starts with understand.
Arrive(r) ==
  /\ pc[r] = "idle"
  /\ \E t \in Tenants \cup {BadTenant} : tenant' = [tenant EXCEPT ![r] = t]
  /\ Send(r, "understand")
  /\ UNCHANGED <<corpus, retrieved, response, failedIn, metrics>>

\* The rewritten query is there; retrieve embeds it.
UnderstandOk(r) ==
  /\ pc[r] = "understand"
  /\ Send(r, "embed")
  /\ UNCHANGED <<corpus, tenant, retrieved, response, failedIn, metrics>>

\* Mutant: hybrid_search trusts the tenant id.
EmbedOkUnvalidated(r) ==
  /\ pc[r] = "embed"
  /\ pc' = [pc EXCEPT ![r] = "search"]
  /\ attempt' = [attempt EXCEPT ![r] = 0]
  /\ UNCHANGED <<corpus, tenant, completes, retrieved, response, failedIn, metrics>>

\* The embedding is there; hybrid_search validates the tenant id before it
\* sends anything.
EmbedOk(r) ==
  /\ pc[r] = "embed"
  /\ \/ tenant[r] = BadTenant /\ Raise(r, "retrieve", 400)
     \/ /\ tenant[r] # BadTenant
        /\ pc' = [pc EXCEPT ![r] = "search"]
        /\ attempt' = [attempt EXCEPT ![r] = 0]
        /\ UNCHANGED <<corpus, tenant, completes, retrieved, response, failedIn, metrics>>

\* Mutant: the filter of the search lacks the tenant clause.
MatchingAnyTenant(r) == {d \in Docs : corpus[d] # Absent}

\* The chunks that _build_filter lets through.
Matching(r) == {d \in Docs : corpus[d] = tenant[r]}

\* The index ranks what matches and returns at most top_k of it.
SearchOk(r) ==
  /\ pc[r] = "search"
  /\ \E S \in SUBSET Matching(r) :
       /\ Cardinality(S) <= TopK
       /\ retrieved' = [retrieved EXCEPT ![r] = {[id |-> d, tenant |-> corpus[d]] : d \in S}]
  /\ pc' = [pc EXCEPT ![r] = "retrieved"]
  /\ Count({"retrievalLatency"})
  /\ UNCHANGED <<corpus, tenant, attempt, completes, response, failedIn>>

\* The search service raises, or answers with a document that does not
\* validate as a Chunk, which is a ValueError.
SearchFails(r) ==
  /\ pc[r] = "search"
  /\ \E s \in {400, 500} : Raise(r, "retrieve", s)

\* generate returns, the graph ends and the route answers 200.
Succeed(r, text, cited) ==
  /\ Finish(r, 200, text, cited)
  /\ Count({"generationLatency", "queriesSuccess", "totalRequest"})
  /\ UNCHANGED failedIn

\* generate answers an empty retrieval itself and asks the model otherwise.
Generate(r) ==
  /\ pc[r] = "retrieved"
  /\ \/ retrieved[r] = {} /\ Succeed(r, "none_found", {})
     \/ /\ retrieved[r] # {}
        /\ Send(r, "generate")
        /\ UNCHANGED <<corpus, tenant, retrieved, response, failedIn, metrics>>

Citable == SUBSET (Docs \cup {Invented})
Valid(r, cited) == cited \subseteq Ids(retrieved[r])

\* An answer that cites an id that was not retrieved is asked for once more.
GenerateOk(r) ==
  /\ pc[r] = "generate"
  /\ \E cited \in Citable :
       \/ Valid(r, cited) /\ Succeed(r, "model", cited)
       \/ /\ ~Valid(r, cited)
          /\ Send(r, "strict")
          /\ UNCHANGED <<corpus, tenant, retrieved, response, failedIn, metrics>>

\* Mutant: ids that the index holds pass the second check.
StrictOkAnyIndexed(r) ==
  /\ pc[r] = "strict"
  /\ \E cited \in Citable :
       \/ cited \subseteq Docs /\ Succeed(r, "model", cited)
       \/ ~(cited \subseteq Docs) /\ Raise(r, "generate", 502)

\* Mutant: the strict prompt is repeated until it is obeyed.
StrictOkRepeats(r) ==
  /\ pc[r] = "strict"
  /\ \E cited \in Citable :
       \/ Valid(r, cited) /\ Succeed(r, "model", cited)
       \/ /\ ~Valid(r, cited)
          /\ Send(r, "strict")
          /\ UNCHANGED <<corpus, tenant, retrieved, response, failedIn, metrics>>

\* The second answer is the last: CitationContractError if it is no better.
StrictOk(r) ==
  /\ pc[r] = "strict"
  /\ \E cited \in Citable :
       \/ Valid(r, cited) /\ Succeed(r, "model", cited)
       \/ ~Valid(r, cited) /\ Raise(r, "generate", 502)

\* Mutant: reraise is missing, the last error starts over.
TransientForever(r) ==
  /\ pc[r] \in Upstream
  /\ attempt' = [attempt EXCEPT ![r] = IF @ < MAX_ATTEMPTS THEN @ + 1 ELSE 1]
  /\ UNCHANGED <<corpus, pc, tenant, completes, retrieved, response, failedIn, metrics>>

\* tenacity sleeps and tries again, or gives the last error to the node.
Transient(r) ==
  /\ pc[r] \in Upstream
  /\ \/ /\ attempt[r] < MAX_ATTEMPTS
        /\ attempt' = [attempt EXCEPT ![r] = @ + 1]
        /\ UNCHANGED <<corpus, pc, tenant, completes, retrieved, response, failedIn, metrics>>
     \/ attempt[r] = MAX_ATTEMPTS /\ Raise(r, NodeOf(pc[r]), 500)

\* The answer of the model does not validate: a ValueError, not retried.
Unparsable(r) ==
  /\ pc[r] \in Upstream \ {"embed"}
  /\ Raise(r, NodeOf(pc[r]), 400)

\* A refusal of the model (the node trips over None), or any other error.
Fatal(r) ==
  /\ pc[r] \in Upstream
  /\ Raise(r, NodeOf(pc[r]), 500)

\* ingest uploads a chunk, new or moved to another tenant.
Upload ==
  /\ \E d \in Docs, t \in Tenants : corpus' = [corpus EXCEPT ![d] = t]
  /\ UNCHANGED <<request, metrics>>

-----------------------------------------------------------------------------

Init ==
  /\ corpus \in [Docs -> Tenants \cup {Absent}]
  /\ pc = [r \in Requests |-> "idle"]
  /\ tenant = [r \in Requests |-> None]
  /\ attempt = [r \in Requests |-> 0]
  /\ completes = [r \in Requests |-> 0]
  /\ retrieved = [r \in Requests |-> {}]
  /\ response = [r \in Requests |-> None]
  /\ failedIn = [r \in Requests |-> None]
  /\ metrics = [k \in Counters |-> 0]

\* A step of a request that has arrived.
Step(r) ==
  \/ UnderstandOk(r) \/ EmbedOk(r) \/ SearchOk(r) \/ SearchFails(r)
  \/ Generate(r) \/ GenerateOk(r) \/ StrictOk(r)
  \/ Transient(r) \/ Unparsable(r) \/ Fatal(r)

Next == (\E r \in Requests : Arrive(r) \/ Step(r)) \/ Upload

Spec == Init /\ [][Next]_vars

(* The SDKs bound every wait for an upstream answer, and the event loop    *)
(* runs what is ready.  Nothing says a request arrives, or that an answer  *)
(* is a good one.                                                          *)
FairSpec == Spec /\ \A r \in Requests : WF_vars(Step(r))

-----------------------------------------------------------------------------
(* Properties                                                              *)

Done(r) == response[r] # None
Answered(r) == Done(r) /\ response[r].status = 200

\* How far a request has come, as a tenant can tell.
PhaseOf(p) ==
  CASE p = "idle" -> "idle"
    [] p \in {"understand", "embed", "search"} -> "open"
    [] p \in {"retrieved", "generate", "strict"} -> "looked"
    [] p = "done" -> "closed"

Phase == [r \in Requests |-> PhaseOf(pc[r])]
Seen == [r \in Requests |-> Ids(retrieved[r])]

(* The promise to tenants, as a specification of its own.                  *)
Contract == INSTANCE QueryContract WITH phase <- Phase, seen <- Seen, reply <- response

(* However retries, re-indexing and other requests interleave, a request   *)
(* sees one moment of its own tenant's chunks and answers from those.      *)
KeepsContract == Contract!Spec

(* Nothing of another tenant reaches the prompt: every chunk in the state  *)
(* of a request carries its tenant, and a malformed tenant id retrieves    *)
(* nothing and is never answered.                                          *)
TenantIsolation ==
  \A r \in Requests :
    /\ \A ch \in retrieved[r] : ch.tenant = tenant[r]
    /\ tenant[r] = BadTenant => ~Answered(r)

(* The citation contract, generate.py:6-14 and 18-31: prose of the model   *)
(* is never the answer to an empty retrieval, and an answer cites nothing  *)
(* that was not retrieved, whichever of the two attempts it came from.     *)
Grounded ==
  \A r \in Requests : Answered(r) =>
    /\ response[r].cited \subseteq Ids(retrieved[r])
    /\ response[r].text = "model" <=> retrieved[r] # {}

CountOf(P(_)) == Cardinality({r \in Requests : P(r)})

(* What /metrics says is true at every moment, whichever requests are      *)
(* under way and wherever they fail.  A success in queries_total is a 200; *)
(* an error is one request that was refused or failed, every refusal that  *)
(* the route maps (400, 502) among them; each has its one latency; and the *)
(* nodes have one latency per run of theirs that ended and one error per   *)
(* exception that left them (metrics.py:30-64).  Whether the errors are    *)
(* all errors is EveryQueryCounted.                                        *)
MetricsBalance ==
  /\ metrics["queriesSuccess"] = CountOf(Answered)
  /\ metrics["queriesError"] >=
       CountOf(LAMBDA r : Done(r) /\ response[r].status \in {400, 502})
  /\ metrics["queriesError"] <= CountOf(LAMBDA r : Done(r) /\ response[r].status # 200)
  /\ metrics["totalRequest"] = metrics["queriesSuccess"] + metrics["queriesError"]
  /\ metrics["retrievalErrors"] = CountOf(LAMBDA r : failedIn[r] = "retrieve")
  /\ metrics["retrievalLatency"] =
       CountOf(LAMBDA r : \/ pc[r] \in {"retrieved", "generate", "strict"}
                          \/ Done(r) /\ failedIn[r] # "understand")
  /\ metrics["generationErrors"] = CountOf(LAMBDA r : failedIn[r] = "generate")
  /\ metrics["generationLatency"] =
       CountOf(LAMBDA r : Answered(r) \/ failedIn[r] = "generate")

(* A request ends, within MAX_ATTEMPTS attempts of each of its calls and   *)
(* at most one strict retry, whatever the model and the index answer.      *)
EveryRequestEnds == \A r \in Requests : pc[r] # "idle" ~> Done(r)

=============================================================================
