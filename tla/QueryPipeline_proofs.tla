------------------------ MODULE QueryPipeline_proofs ------------------------
(***************************************************************************)
(* Proofs about QueryPipeline, for every set of requests, tenants and      *)
(* chunks, every number of attempts and every top_k: type correctness, the *)
(* isolation of tenants, the citation contract, the refinement of          *)
(* QueryContract, and the balance of the counters.  The inductive          *)
(* invariant adds where in the graph a request can have retrieved          *)
(* something, and how many calls of the model lie behind it; for the       *)
(* counters, which of them each request accounts for.                      *)
(***************************************************************************)
EXTENDS QueryPipeline, FiniteSetTheorems, TLAPS

\* How far a request has come decides what it holds.
StageInv(r) ==
  /\ pc[r] = "idle" => completes[r] = 0
  /\ pc[r] \in {"understand", "embed", "search", "retrieved"} => completes[r] = 1
  /\ pc[r] = "generate" => completes[r] = 2
  /\ pc[r] = "strict" => completes[r] = 3
  /\ pc[r] \in {"idle", "understand", "embed", "search"} => retrieved[r] = {}
  /\ pc[r] \in {"search", "retrieved", "generate", "strict"} => tenant[r] # BadTenant
  /\ pc[r] \in {"generate", "strict"} => retrieved[r] # {}
  /\ response[r] # None <=> pc[r] = "done"

\* TenantIsolation and Grounded, of one request.
Isolated(r) ==
  /\ \A ch \in retrieved[r] : ch.tenant = tenant[r]
  /\ tenant[r] = BadTenant => ~Answered(r)

GroundedAt(r) ==
  Answered(r) =>
    /\ response[r].cited \subseteq Ids(retrieved[r])
    /\ response[r].text = "model" <=> retrieved[r] # {}

RequestInv(r) == StageInv(r) /\ Isolated(r) /\ GroundedAt(r)

IInv ==
  /\ TypeOK
  /\ \A r \in Requests : RequestInv(r)

-----------------------------------------------------------------------------
(* Steps, seen from one request                                            *)

\* What r does leaves the other requests alone.
Untouched(d) ==
  /\ pc'[d] = pc[d] /\ tenant'[d] = tenant[d] /\ completes'[d] = completes[d]
  /\ retrieved'[d] = retrieved[d] /\ response'[d] = response[d]

LEMMA OthersUntouched ==
  ASSUME TypeOK, NEW r \in Requests, NEW d \in Requests, d # r, Arrive(r) \/ Step(r)
  PROVE  Untouched(d)
<1> USE DEF TypeOK, Untouched, request
<1>1. CASE Arrive(r)
  BY <1>1 DEF Arrive, Send
<1>2. ASSUME NEW node, NEW s, Raise(r, node, s) PROVE Untouched(d)
  BY <1>2 DEF Raise, Finish
<1>3. ASSUME NEW text, NEW cited, Succeed(r, text, cited) PROVE Untouched(d)
  BY <1>3 DEF Succeed, Finish
<1>4. CASE UnderstandOk(r)
  BY <1>4 DEF UnderstandOk, Send
<1>5. CASE EmbedOk(r)
  BY <1>2, <1>5 DEF EmbedOk
<1>6. CASE SearchOk(r)
  BY <1>6 DEF SearchOk
<1>7. CASE SearchFails(r)
  BY <1>2, <1>7 DEF SearchFails
<1>8. CASE Generate(r)
  BY <1>3, <1>8 DEF Generate, Send
<1>9. CASE GenerateOk(r)
  BY <1>3, <1>9 DEF GenerateOk, Send
<1>10. CASE StrictOk(r)
  BY <1>2, <1>3, <1>10 DEF StrictOk
<1>11. CASE Transient(r)
  BY <1>2, <1>11 DEF Transient
<1>12. CASE Unparsable(r) \/ Fatal(r)
  BY <1>2, <1>12 DEF Unparsable, Fatal
<1> QED
  BY <1>1, <1>4, <1>5, <1>6, <1>7, <1>8, <1>9, <1>10, <1>11, <1>12 DEF Step

LEMMA UntouchedInv ==
  ASSUME NEW d, RequestInv(d), Untouched(d)
  PROVE  RequestInv(d)'
BY DEF RequestInv, StageInv, Isolated, GroundedAt, Untouched, Answered, Done, Ids

LEMMA NodeOfType ==
  ASSUME NEW p \in Upstream
  PROVE  NodeOf(p) \in {"understand", "retrieve", "generate"}
BY DEF Upstream, NodeOf

\* What the counters, the answers and the retrieved ids are made of.
LEMMA CountType ==
  ASSUME metrics \in [Counters -> Nat], NEW C, Count(C)
  PROVE  metrics' \in [Counters -> Nat]
<1>1. \A k \in Counters : metrics[k] + (IF k \in C THEN 1 ELSE 0) \in Nat
  OBVIOUS
<1> QED
  BY <1>1 DEF Count

LEMMA RefusalType ==
  ASSUME NEW s \in {400, 500, 502}
  PROVE  [status |-> s, text |-> None, cited |-> {}] \in Responses
<1>1. {} \in SUBSET Docs
  OBVIOUS
<1>2. s \in Statuses
  BY DEF Statuses
<1> QED
  BY <1>1, <1>2, Zenon DEF Responses

LEMMA AnswerType ==
  ASSUME NEW text \in {"model", "none_found"}, NEW cited \in SUBSET Docs
  PROVE  [status |-> 200, text |-> text, cited |-> cited] \in Responses
<1>1. 200 \in Statuses
  BY DEF Statuses
<1>2. text \in {None, "model", "none_found"}
  OBVIOUS
<1> QED
  BY <1>1, <1>2, Zenon DEF Responses

LEMMA IdsOfType ==
  ASSUME NEW chunks \in SUBSET Chunks
  PROVE  Ids(chunks) \subseteq Docs
<1>1. \A ch \in Chunks : ch.id \in Docs
  BY DEF Chunks
<1> QED
  BY <1>1 DEF Ids

\* A request ends: what its variables are, given a well-formed answer.
LEMMA FinishType ==
  ASSUME TypeOK, NEW r \in Requests, NEW s, NEW text, NEW cited,
         [status |-> s, text |-> text, cited |-> cited] \in Responses,
         Finish(r, s, text, cited)
  PROVE  /\ corpus' \in [Docs -> Tenants \cup {Absent}]
         /\ pc' \in [Requests -> {"idle", "search", "retrieved", "done"} \cup Upstream]
         /\ tenant' \in [Requests -> Tenants \cup {BadTenant, None}]
         /\ attempt' \in [Requests -> 0 .. MAX_ATTEMPTS]
         /\ completes' \in [Requests -> 0 .. 3]
         /\ retrieved' \in [Requests -> SUBSET Chunks]
         /\ response' \in [Requests -> Responses \cup {None}]
         /\ pc'[r] = "done"
         /\ response'[r] = [status |-> s, text |-> text, cited |-> cited]
         /\ retrieved'[r] = retrieved[r]
         /\ tenant'[r] = tenant[r]
         /\ completes'[r] = completes[r]
<1> DEFINE answer == [status |-> s, text |-> text, cited |-> cited]
<1>1. /\ answer \in Responses
      /\ response' = [response EXCEPT ![r] = answer]
  BY DEF Finish
<1> HIDE DEF answer
<1>2. response' \in [Requests -> Responses \cup {None}] /\ response'[r] = answer
  BY <1>1 DEF TypeOK
<1>3. attempt' \in [Requests -> 0 .. MAX_ATTEMPTS]
  BY AttemptsAssumption DEF TypeOK, Finish
<1>4. /\ pc' \in [Requests -> {"idle", "search", "retrieved", "done"} \cup Upstream]
      /\ pc'[r] = "done"
  BY DEF TypeOK, Finish
<1>5. UNCHANGED <<corpus, tenant, completes, retrieved>>
  BY DEF Finish
<1> QED
  BY <1>2, <1>3, <1>4, <1>5 DEF TypeOK, answer

\* An exception ends the request without an answer.
LEMMA RaiseInv ==
  ASSUME TypeOK, NEW r \in Requests, RequestInv(r),
         NEW node \in {"understand", "retrieve", "generate"}, NEW s \in {400, 500, 502},
         Raise(r, node, s)
  PROVE  TypeOK' /\ RequestInv(r)'
<1>1. Finish(r, s, None, {}) /\ Count(NodeCounts(node) \cup RouteCounts(s))
  BY DEF Raise
<1>2. failedIn' \in [Requests -> {None, "understand", "retrieve", "generate"}]
  BY DEF TypeOK, Raise
<1>3. metrics' \in [Counters -> Nat]
  BY <1>1, CountType DEF TypeOK
<1> DEFINE answer == [status |-> s, text |-> None, cited |-> {}]
<1>4. answer \in Responses
  BY RefusalType
<1>5. TypeOK'
  BY <1>1, <1>2, <1>3, <1>4, FinishType DEF TypeOK
<1>6. /\ pc'[r] = "done" /\ response'[r] = answer
      /\ retrieved'[r] = retrieved[r] /\ tenant'[r] = tenant[r]
  BY <1>1, <1>4, FinishType
<1>7. answer # None /\ answer.status # 200
  <2>1. answer # None
    <3> HIDE DEF answer
    <3> QED  BY <1>4, NoneAssumption
  <2>2. answer.status = s
    OBVIOUS
  <2> QED
    BY <2>1, <2>2
<1> HIDE DEF answer
<1>8. ~Answered(r)'
  BY <1>6, <1>7 DEF Answered
<1>9. StageInv(r)'
  BY <1>6, <1>7 DEF StageInv
<1> QED
  BY <1>5, <1>6, <1>8, <1>9 DEF RequestInv, Isolated, GroundedAt

\* An answer, given what the nodes have checked.
LEMMA SucceedInv ==
  ASSUME TypeOK, NEW r \in Requests, RequestInv(r), tenant[r] # BadTenant,
         NEW text \in {"model", "none_found"}, NEW cited, cited \subseteq Ids(retrieved[r]),
         text = "model" <=> retrieved[r] # {},
         Succeed(r, text, cited)
  PROVE  TypeOK' /\ RequestInv(r)'
<1>1. /\ Finish(r, 200, text, cited)
      /\ Count({"generationLatency", "queriesSuccess", "totalRequest"})
      /\ UNCHANGED failedIn
  BY DEF Succeed
<1>2. metrics' \in [Counters -> Nat]
  BY <1>1, CountType DEF TypeOK
<1>3. retrieved[r] \in SUBSET Chunks
  BY DEF TypeOK
<1>4. cited \in SUBSET Docs
  BY <1>3, IdsOfType
<1> DEFINE answer == [status |-> 200, text |-> text, cited |-> cited]
<1>5. answer \in Responses
  BY <1>4, AnswerType
<1>6. TypeOK'
  BY <1>1, <1>2, <1>5, FinishType DEF TypeOK
<1>7. /\ pc'[r] = "done" /\ response'[r] = answer
      /\ retrieved'[r] = retrieved[r] /\ tenant'[r] = tenant[r]
  BY <1>1 DEF Finish, TypeOK
<1>8. answer # None /\ answer.text = text /\ answer.cited = cited
  BY <1>5, NoneAssumption
<1> HIDE DEF answer
<1>9. StageInv(r)'
  BY <1>7, <1>8 DEF StageInv
<1>10. Isolated(r)'
  BY <1>7 DEF RequestInv, Isolated
<1>11. GroundedAt(r)'
  BY <1>7, <1>8 DEF GroundedAt, Ids
<1> QED
  BY <1>6, <1>9, <1>10, <1>11 DEF RequestInv

\* A call that is sent leaves everything but its own place and counts alone.
LEMMA SendType ==
  ASSUME TypeOK, NEW r \in Requests, NEW where \in Upstream, Send(r, where),
         where = "embed" \/ completes[r] < 3
  PROVE  /\ pc' \in [Requests -> {"idle", "search", "retrieved", "done"} \cup Upstream]
         /\ attempt' \in [Requests -> 0 .. MAX_ATTEMPTS]
         /\ completes' \in [Requests -> 0 .. 3]
         /\ pc'[r] = where
         /\ completes'[r] = IF where = "embed" THEN completes[r] ELSE completes[r] + 1
BY AttemptsAssumption DEF TypeOK, Send

-----------------------------------------------------------------------------
(* Each action keeps the invariant of the request it serves                *)

\* The call that a node sends keeps the types; what is left is per action.
LEMMA SendInv ==
  ASSUME TypeOK, NEW r \in Requests, RequestInv(r), NEW where \in Upstream, Send(r, where),
         \/ where = "embed" /\ completes[r] = 1 /\ retrieved[r] = {}
         \/ where = "generate" /\ completes[r] = 1 /\ retrieved[r] # {} /\ tenant[r] # BadTenant
         \/ where = "strict" /\ completes[r] = 2 /\ retrieved[r] # {} /\ tenant[r] # BadTenant,
         pc[r] # "done",
         UNCHANGED <<corpus, tenant, retrieved, response, failedIn, metrics>>
  PROVE  TypeOK' /\ RequestInv(r)'
<1>1. /\ pc' \in [Requests -> {"idle", "search", "retrieved", "done"} \cup Upstream]
      /\ attempt' \in [Requests -> 0 .. MAX_ATTEMPTS]
      /\ completes' \in [Requests -> 0 .. 3]
      /\ pc'[r] = where
      /\ completes'[r] = IF where = "embed" THEN completes[r] ELSE completes[r] + 1
  BY SendType
<1>2. TypeOK'
  BY <1>1 DEF TypeOK
<1>3. response[r] = None
  BY DEF RequestInv, StageInv
<1>4. StageInv(r)'
  BY <1>1, <1>3 DEF StageInv
<1> QED
  BY <1>2, <1>3, <1>4 DEF RequestInv, Isolated, GroundedAt, Answered, Done

LEMMA ArriveInv ==
  ASSUME TypeOK, NEW r \in Requests, RequestInv(r), Arrive(r)
  PROVE  TypeOK' /\ RequestInv(r)'
<1>1. /\ pc[r] = "idle" /\ Send(r, "understand")
      /\ UNCHANGED <<corpus, retrieved, response, failedIn, metrics>>
  BY DEF Arrive
<1>2. tenant' \in [Requests -> Tenants \cup {BadTenant, None}]
  BY DEF TypeOK, Arrive
<1>3. completes[r] = 0 /\ retrieved[r] = {} /\ response[r] = None
  BY <1>1 DEF RequestInv, StageInv
<1>4. "understand" \in Upstream
  BY DEF Upstream
<1>5. /\ pc' \in [Requests -> {"idle", "search", "retrieved", "done"} \cup Upstream]
      /\ attempt' \in [Requests -> 0 .. MAX_ATTEMPTS]
      /\ completes' \in [Requests -> 0 .. 3]
      /\ pc'[r] = "understand" /\ completes'[r] = 1
  BY <1>1, <1>3, <1>4, SendType
<1>6. TypeOK'
  BY <1>1, <1>2, <1>5 DEF TypeOK
<1>7. retrieved'[r] = {} /\ response'[r] = None
  BY <1>1, <1>3
<1> QED
  BY <1>5, <1>6, <1>7 DEF RequestInv, StageInv, Isolated, GroundedAt, Answered, Done

LEMMA UnderstandOkInv ==
  ASSUME TypeOK, NEW r \in Requests, RequestInv(r), UnderstandOk(r)
  PROVE  TypeOK' /\ RequestInv(r)'
<1>1. /\ pc[r] = "understand" /\ Send(r, "embed")
      /\ UNCHANGED <<corpus, tenant, retrieved, response, failedIn, metrics>>
  BY DEF UnderstandOk
<1>2. completes[r] = 1 /\ retrieved[r] = {}
  BY <1>1 DEF RequestInv, StageInv
<1>3. "embed" \in Upstream
  BY DEF Upstream
<1> QED
  BY <1>1, <1>2, <1>3, SendInv

LEMMA EmbedOkInv ==
  ASSUME TypeOK, NEW r \in Requests, RequestInv(r), EmbedOk(r)
  PROVE  TypeOK' /\ RequestInv(r)'
<1>1. CASE Raise(r, "retrieve", 400)
  BY <1>1, RaiseInv
<1>2. CASE ~Raise(r, "retrieve", 400)
  <2>1. /\ pc[r] = "embed" /\ tenant[r] # BadTenant
        /\ pc' = [pc EXCEPT ![r] = "search"]
        /\ attempt' = [attempt EXCEPT ![r] = 0]
        /\ UNCHANGED <<corpus, tenant, completes, retrieved, response, failedIn, metrics>>
    BY <1>2 DEF EmbedOk
  <2>2. TypeOK'
    BY <2>1, AttemptsAssumption DEF TypeOK
  <2>3. pc'[r] = "search"
    BY <2>1 DEF TypeOK
  <2>4. StageInv(r)'
    BY <2>1, <2>3 DEF RequestInv, StageInv
  <2> QED
    BY <2>1, <2>2, <2>4 DEF RequestInv, Isolated, GroundedAt, Answered, Done
<1> QED
  BY <1>1, <1>2

LEMMA SearchOkInv ==
  ASSUME TypeOK, NEW r \in Requests, RequestInv(r), SearchOk(r)
  PROVE  TypeOK' /\ RequestInv(r)'
<1>1. PICK S \in SUBSET Matching(r) :
        retrieved' = [retrieved EXCEPT ![r] = {[id |-> d, tenant |-> corpus[d]] : d \in S}]
  BY DEF SearchOk
<1>2. /\ pc[r] = "search" /\ pc' = [pc EXCEPT ![r] = "retrieved"]
      /\ Count({"retrievalLatency"})
      /\ UNCHANGED <<corpus, tenant, attempt, completes, response, failedIn>>
  BY DEF SearchOk
<1> DEFINE chunks == {[id |-> d, tenant |-> corpus[d]] : d \in S}
<1>3. tenant[r] # BadTenant /\ tenant[r] \in Tenants \cup {None} /\ completes[r] = 1
      /\ response[r] = None
  BY <1>2 DEF RequestInv, StageInv, TypeOK
<1>4. \A d \in S : d \in Docs /\ corpus[d] = tenant[r] /\ corpus[d] \in Tenants
  BY <1>3, NamesAssumption DEF Matching, TypeOK
<1>5. chunks \in SUBSET Chunks /\ \A ch \in chunks : ch.tenant = tenant[r]
  BY <1>4 DEF Chunks
<1> HIDE DEF chunks
<1>6. /\ retrieved' \in [Requests -> SUBSET Chunks] /\ retrieved'[r] = chunks
      /\ pc' \in [Requests -> {"idle", "search", "retrieved", "done"} \cup Upstream]
      /\ pc'[r] = "retrieved"
  BY <1>1, <1>2, <1>5 DEF TypeOK, chunks
<1>7. metrics' \in [Counters -> Nat]
  BY <1>2, CountType DEF TypeOK
<1>8. TypeOK'
  BY <1>2, <1>6, <1>7 DEF TypeOK
<1>9. StageInv(r)'
  BY <1>2, <1>3, <1>6 DEF StageInv
<1>10. Isolated(r)' /\ GroundedAt(r)'
  BY <1>2, <1>3, <1>5, <1>6 DEF Isolated, GroundedAt, Answered, Done
<1> QED
  BY <1>8, <1>9, <1>10 DEF RequestInv

LEMMA SearchFailsInv ==
  ASSUME TypeOK, NEW r \in Requests, RequestInv(r), SearchFails(r)
  PROVE  TypeOK' /\ RequestInv(r)'
BY RaiseInv DEF SearchFails

LEMMA GenerateInv ==
  ASSUME TypeOK, NEW r \in Requests, RequestInv(r), Generate(r)
  PROVE  TypeOK' /\ RequestInv(r)'
<1>1. pc[r] = "retrieved" /\ tenant[r] # BadTenant /\ completes[r] = 1
  BY DEF Generate, RequestInv, StageInv
<1>2. CASE retrieved[r] = {} /\ Succeed(r, "none_found", {})
  BY <1>1, <1>2, SucceedInv
<1>3. CASE /\ retrieved[r] # {} /\ Send(r, "generate")
           /\ UNCHANGED <<corpus, tenant, retrieved, response, failedIn, metrics>>
  <2>1. "generate" \in Upstream
    BY DEF Upstream
  <2> QED
    BY <1>1, <1>3, <2>1, SendInv
<1> QED
  BY <1>2, <1>3 DEF Generate

LEMMA GenerateOkInv ==
  ASSUME TypeOK, NEW r \in Requests, RequestInv(r), GenerateOk(r)
  PROVE  TypeOK' /\ RequestInv(r)'
<1>1. /\ pc[r] = "generate" /\ tenant[r] # BadTenant /\ completes[r] = 2
      /\ retrieved[r] # {}
  BY DEF GenerateOk, RequestInv, StageInv
<1>2. ASSUME NEW cited, cited \subseteq Ids(retrieved[r]), Succeed(r, "model", cited)
      PROVE  TypeOK' /\ RequestInv(r)'
  BY <1>1, <1>2, SucceedInv
<1>3. CASE /\ Send(r, "strict")
           /\ UNCHANGED <<corpus, tenant, retrieved, response, failedIn, metrics>>
  <2>1. "strict" \in Upstream
    BY DEF Upstream
  <2> QED
    BY <1>1, <1>3, <2>1, SendInv
<1> QED
  BY <1>2, <1>3 DEF GenerateOk, Valid

LEMMA StrictOkInv ==
  ASSUME TypeOK, NEW r \in Requests, RequestInv(r), StrictOk(r)
  PROVE  TypeOK' /\ RequestInv(r)'
<1>1. pc[r] = "strict" /\ tenant[r] # BadTenant /\ retrieved[r] # {}
  BY DEF StrictOk, RequestInv, StageInv
<1>2. ASSUME NEW cited, cited \subseteq Ids(retrieved[r]), Succeed(r, "model", cited)
      PROVE  TypeOK' /\ RequestInv(r)'
  BY <1>1, <1>2, SucceedInv
<1>3. CASE Raise(r, "generate", 502)
  BY <1>3, RaiseInv
<1> QED
  BY <1>2, <1>3 DEF StrictOk, Valid

LEMMA TransientInv ==
  ASSUME TypeOK, NEW r \in Requests, RequestInv(r), Transient(r)
  PROVE  TypeOK' /\ RequestInv(r)'
<1>1. pc[r] \in Upstream
  BY DEF Transient
<1>2. CASE /\ attempt[r] < MAX_ATTEMPTS
           /\ attempt' = [attempt EXCEPT ![r] = @ + 1]
           /\ UNCHANGED <<corpus, pc, tenant, completes, retrieved, response, failedIn, metrics>>
  <2>1. attempt' \in [Requests -> 0 .. MAX_ATTEMPTS]
    BY <1>2, AttemptsAssumption DEF TypeOK
  <2>2. TypeOK'
    BY <1>2, <2>1 DEF TypeOK
  <2>3. Untouched(r)
    BY <1>2 DEF Untouched
  <2> QED
    BY <2>2, <2>3, UntouchedInv
<1>3. CASE Raise(r, NodeOf(pc[r]), 500)
  BY <1>1, <1>3, NodeOfType, RaiseInv
<1> QED
  BY <1>2, <1>3 DEF Transient

LEMMA UnparsableOrFatalInv ==
  ASSUME TypeOK, NEW r \in Requests, RequestInv(r), Unparsable(r) \/ Fatal(r)
  PROVE  TypeOK' /\ RequestInv(r)'
<1>1. /\ pc[r] \in Upstream
      /\ Raise(r, NodeOf(pc[r]), 400) \/ Raise(r, NodeOf(pc[r]), 500)
  BY DEF Unparsable, Fatal
<1>2. NodeOf(pc[r]) \in {"understand", "retrieve", "generate"}
  BY <1>1, NodeOfType
<1>3. CASE Raise(r, NodeOf(pc[r]), 400)
  BY <1>2, <1>3, RaiseInv
<1>4. CASE Raise(r, NodeOf(pc[r]), 500)
  BY <1>2, <1>4, RaiseInv
<1> QED
  BY <1>1, <1>3, <1>4

LEMMA RequestStepInv ==
  ASSUME TypeOK, NEW r \in Requests, RequestInv(r), Arrive(r) \/ Step(r)
  PROVE  TypeOK' /\ RequestInv(r)'
BY ArriveInv, UnderstandOkInv, EmbedOkInv, SearchOkInv, SearchFailsInv, GenerateInv,
   GenerateOkInv, StrictOkInv, TransientInv, UnparsableOrFatalInv DEF Step

\* What ingest uploads moves no request.
LEMMA UploadInv ==
  ASSUME IInv, Upload
  PROVE  IInv'
<1>1. corpus' \in [Docs -> Tenants \cup {Absent}] /\ UNCHANGED <<request, metrics>>
  BY DEF IInv, TypeOK, Upload
<1>2. TypeOK'
  BY <1>1 DEF IInv, TypeOK, request
<1>3. ASSUME NEW d \in Requests PROVE RequestInv(d)'
  <2>1. Untouched(d)
    BY <1>1 DEF Untouched, request
  <2> QED
    BY <2>1, UntouchedInv DEF IInv
<1> QED
  BY <1>2, <1>3 DEF IInv

-----------------------------------------------------------------------------
(* The inductive invariant                                                 *)

LEMMA InitInv == Init => IInv
<1> SUFFICES ASSUME Init PROVE IInv
  OBVIOUS
<1>1. TypeOK
  <2>1. metrics \in [Counters -> Nat]
    BY DEF Init
  <2> QED
    BY <2>1, AttemptsAssumption DEF Init, TypeOK
<1>2. ASSUME NEW r \in Requests PROVE RequestInv(r)
  <2>1. /\ pc[r] = "idle" /\ completes[r] = 0 /\ retrieved[r] = {} /\ response[r] = None
        /\ tenant[r] = None
    BY DEF Init
  <2> QED
    BY <2>1 DEF RequestInv, StageInv, Isolated, GroundedAt, Answered, Done
<1> QED
  BY <1>1, <1>2 DEF IInv

LEMMA NextInv == IInv /\ [Next]_vars => IInv'
<1> SUFFICES ASSUME IInv, [Next]_vars PROVE IInv'
  OBVIOUS
<1>1. ASSUME NEW r \in Requests, Arrive(r) \/ Step(r) PROVE IInv'
  <2>1. TypeOK' /\ RequestInv(r)'
    BY <1>1, RequestStepInv DEF IInv
  <2>2. ASSUME NEW d \in Requests, d # r PROVE RequestInv(d)'
    BY <1>1, <2>2, OthersUntouched, UntouchedInv DEF IInv
  <2> QED
    BY <2>1, <2>2 DEF IInv
<1>2. CASE Upload
  BY <1>2, UploadInv
<1>3. CASE UNCHANGED vars
  <2>1. TypeOK'
    BY <1>3 DEF IInv, TypeOK, vars, request
  <2>2. ASSUME NEW d \in Requests PROVE RequestInv(d)'
    <3>1. Untouched(d)
      BY <1>3 DEF Untouched, vars, request
    <3> QED
      BY <3>1, UntouchedInv DEF IInv
  <2> QED
    BY <2>1, <2>2 DEF IInv
<1> QED
  BY <1>1, <1>2, <1>3 DEF Next

(* The invariant of the pipeline: the types, and for every request how     *)
(* what it holds goes with where it is.                                    *)
THEOREM Inductive == Spec => []IInv
BY InitInv, NextInv, PTL DEF Spec

(* Every variable of the pipeline keeps its type: in particular a request  *)
(* completes at most three calls of llm.complete (understand, generate and *)
(* one strict retry) and no call has more than MAX_ATTEMPTS attempts.      *)
THEOREM TypeCorrect == Spec => []TypeOK
<1>1. IInv => TypeOK
  BY DEF IInv
<1> QED
  BY <1>1, Inductive, PTL

(* No chunk of another tenant is in the state of a request, and a request  *)
(* with a malformed tenant id is never answered.                           *)
THEOREM TenantsIsolated == Spec => []TenantIsolation
<1>1. IInv => TenantIsolation
  BY DEF IInv, RequestInv, Isolated, TenantIsolation
<1> QED
  BY <1>1, Inductive, PTL

(* An answer cites only what was retrieved, and is the model's exactly if  *)
(* something was.                                                          *)
THEOREM AnswersGrounded == Spec => []Grounded
<1>1. IInv => Grounded
  BY DEF IInv, RequestInv, GroundedAt, Grounded
<1> QED
  BY <1>1, Inductive, PTL

-----------------------------------------------------------------------------
(* The pipeline implements its contract                                    *)

LEMMA PhaseStep ==
  ASSUME TypeOK, NEW r \in Requests, NEW p, pc' = [pc EXCEPT ![r] = p]
  PROVE  Phase' = [Phase EXCEPT ![r] = PhaseOf(p)]
<1>1. \A d \in Requests : pc'[d] = IF d = r THEN p ELSE pc[d]
  BY DEF TypeOK
<1>2. \A d \in Requests : PhaseOf(pc'[d]) = IF d = r THEN PhaseOf(p) ELSE PhaseOf(pc[d])
  BY <1>1
<1> QED
  BY <1>2 DEF Phase

\* A step inside a phase.
LEMMA PhaseStays ==
  ASSUME TypeOK, NEW r \in Requests, NEW p, pc' = [pc EXCEPT ![r] = p],
         PhaseOf(p) = PhaseOf(pc[r])
  PROVE  Phase' = Phase
<1>1. \A d \in Requests : pc'[d] = IF d = r THEN p ELSE pc[d]
  BY DEF TypeOK
<1>2. \A d \in Requests : PhaseOf(pc'[d]) = PhaseOf(pc[d])
  BY <1>1
<1> QED
  BY <1>2 DEF Phase

LEMMA FinishCloses ==
  ASSUME TypeOK, NEW r \in Requests, NEW s, NEW text, NEW cited,
         Finish(r, s, text, cited)
  PROVE  Contract!Close(r, [status |-> s, text |-> text, cited |-> cited])
<1>1. pc' = [pc EXCEPT ![r] = "done"]
  BY DEF Finish
<1>2. PhaseOf("done") = "closed"
  BY DEF PhaseOf
<1>3. Phase' = [Phase EXCEPT ![r] = "closed"]
  BY <1>1, <1>2, PhaseStep
<1>4. Seen' = Seen
  BY DEF Finish, Seen
<1> QED
  BY <1>3, <1>4 DEF Finish, Contract!Close

LEMMA RaiseRefuses ==
  ASSUME TypeOK, NEW r \in Requests, NEW node, NEW s, Raise(r, node, s),
         \/ pc[r] \in Upstream \cup {"search"} /\ s \in {400, 500}
         \/ pc[r] = "strict" /\ s = 502 /\ retrieved[r] # {}
  PROVE  Contract!Refuse(r)
<1>1. Finish(r, s, None, {})
  BY DEF Raise
<1>2. Contract!Close(r, Contract!Refused(s))
  BY <1>1, FinishCloses DEF Contract!Refused
<1>3. Phase[r] = PhaseOf(pc[r])
  BY DEF Phase
<1>4. CASE pc[r] \in Upstream \cup {"search"} /\ s \in {400, 500}
  <2>1. Phase[r] \in {"open", "looked"}
    BY <1>3, <1>4 DEF PhaseOf, Upstream
  <2> QED
    BY <1>2, <1>4, <2>1 DEF Contract!Refuse
<1>5. CASE pc[r] = "strict" /\ s = 502 /\ retrieved[r] # {}
  <2>1. Phase[r] = "looked"
    BY <1>3, <1>5 DEF PhaseOf
  <2>2. Seen[r] # {}
    BY <1>5 DEF Seen, Ids
  <2> QED
    BY <1>2, <1>5, <2>1, <2>2 DEF Contract!Refuse
<1> QED
  BY <1>4, <1>5

LEMMA EmptyAnswered ==
  ASSUME TypeOK, NEW r \in Requests, pc[r] = "retrieved", retrieved[r] = {},
         Succeed(r, "none_found", {})
  PROVE  Contract!AnswerEmpty(r)
<1>1. Contract!Close(r, [status |-> 200, text |-> "none_found", cited |-> {}])
  BY FinishCloses DEF Succeed
<1>2. Phase[r] = "looked" /\ Seen[r] = {}
  BY DEF Phase, PhaseOf, Seen, Ids
<1> QED
  BY <1>1, <1>2 DEF Contract!AnswerEmpty

LEMMA GroundedAnswered ==
  ASSUME TypeOK, NEW r \in Requests, pc[r] = "generate" \/ pc[r] = "strict",
         retrieved[r] # {}, NEW cited, cited \subseteq Ids(retrieved[r]),
         Succeed(r, "model", cited)
  PROVE  Contract!AnswerGrounded(r)
<1>1. Contract!Close(r, [status |-> 200, text |-> "model", cited |-> cited])
  BY FinishCloses DEF Succeed
<1>2. Phase[r] = "looked"
  BY DEF Phase, PhaseOf
<1>3. Seen[r] # {} /\ cited \in SUBSET Seen[r]
  BY DEF Seen, Ids
<1> QED
  BY <1>1, <1>2, <1>3 DEF Contract!AnswerGrounded

\* A call of the model or a retry is invisible to the tenant.
LEMMA StepStutters ==
  ASSUME TypeOK, NEW r \in Requests, NEW p, pc' = [pc EXCEPT ![r] = p],
         PhaseOf(p) = PhaseOf(pc[r]), UNCHANGED <<corpus, tenant, retrieved, response>>
  PROVE  UNCHANGED Contract!vars
<1>1. Phase' = Phase
  BY PhaseStays
<1>2. Seen' = Seen
  BY DEF Seen
<1> QED
  BY <1>1, <1>2 DEF Contract!vars

LEMMA LookStep ==
  ASSUME TypeOK, NEW r \in Requests, RequestInv(r), SearchOk(r)
  PROVE  Contract!Look(r)
<1>1. PICK S \in SUBSET Matching(r) :
        retrieved' = [retrieved EXCEPT ![r] = {[id |-> d, tenant |-> corpus[d]] : d \in S}]
  BY DEF SearchOk
<1>2. /\ pc[r] = "search" /\ pc' = [pc EXCEPT ![r] = "retrieved"]
      /\ UNCHANGED <<corpus, tenant, response>>
  BY DEF SearchOk
<1>3. PhaseOf("search") = "open" /\ PhaseOf("retrieved") = "looked"
  BY DEF PhaseOf
<1>4. Phase[r] = "open" /\ Phase' = [Phase EXCEPT ![r] = "looked"]
  BY <1>2, <1>3, PhaseStep DEF Phase
<1>5. Ids({[id |-> d, tenant |-> corpus[d]] : d \in S}) = S
  <2> DEFINE hit(d) == [id |-> d, tenant |-> corpus[d]]
  <2>1. \A d \in S : hit(d).id = d
    OBVIOUS
  <2> HIDE DEF hit
  <2>2. {ch.id : ch \in {hit(d) : d \in S}} = S
    BY <2>1
  <2> QED
    BY <2>2 DEF Ids, hit
<1>6. \A d \in Requests : Ids(retrieved'[d]) = IF d = r THEN S ELSE Ids(retrieved[d])
  BY <1>1, <1>5 DEF TypeOK
<1>7. Seen' = [Seen EXCEPT ![r] = S]
  BY <1>6 DEF Seen
<1>8. S \in SUBSET {d \in Docs : corpus[d] = tenant[r]}
  BY DEF Matching
<1>9. tenant[r] # BadTenant
  BY <1>2 DEF RequestInv, StageInv
<1> QED
  BY <1>2, <1>4, <1>7, <1>8, <1>9 DEF Contract!Look

LEMMA StepContract ==
  ASSUME TypeOK, NEW r \in Requests, RequestInv(r), Arrive(r) \/ Step(r)
  PROVE  \/ Contract!Accept(r) \/ Contract!Look(r) \/ Contract!AnswerEmpty(r)
         \/ Contract!AnswerGrounded(r) \/ Contract!Refuse(r) \/ UNCHANGED Contract!vars
<1>1. CASE Arrive(r)
  <2>1. /\ pc[r] = "idle" /\ pc' = [pc EXCEPT ![r] = "understand"]
        /\ \E t \in Tenants \cup {BadTenant} : tenant' = [tenant EXCEPT ![r] = t]
        /\ UNCHANGED <<corpus, retrieved, response>>
    BY <1>1 DEF Arrive, Send
  <2>2. PhaseOf("idle") = "idle" /\ PhaseOf("understand") = "open"
    BY DEF PhaseOf
  <2>3. Phase[r] = "idle" /\ Phase' = [Phase EXCEPT ![r] = "open"]
    BY <2>1, <2>2, PhaseStep DEF Phase
  <2>4. Seen' = Seen
    BY <2>1 DEF Seen
  <2> QED
    BY <2>1, <2>3, <2>4 DEF Contract!Accept
<1>2. CASE UnderstandOk(r)
  BY <1>2, StepStutters DEF UnderstandOk, Send, PhaseOf
<1>3. CASE EmbedOk(r)
  <2>1. CASE Raise(r, "retrieve", 400)
    BY <1>3, <2>1, RaiseRefuses DEF EmbedOk, Upstream
  <2>2. CASE ~Raise(r, "retrieve", 400)
    BY <1>3, <2>2, StepStutters DEF EmbedOk, PhaseOf
  <2> QED
    BY <2>1, <2>2
<1>4. CASE SearchOk(r)
  BY <1>4, LookStep
<1>5. CASE SearchFails(r)
  BY <1>5, RaiseRefuses DEF SearchFails
<1>6. CASE Generate(r)
  <2>1. CASE retrieved[r] = {} /\ Succeed(r, "none_found", {})
    BY <1>6, <2>1, EmptyAnswered DEF Generate
  <2>2. CASE Send(r, "generate") /\ UNCHANGED <<corpus, tenant, retrieved, response>>
    BY <1>6, <2>2, StepStutters DEF Generate, Send, PhaseOf
  <2> QED
    BY <1>6, <2>1, <2>2 DEF Generate
<1>7. CASE GenerateOk(r)
  <2>1. pc[r] = "generate" /\ retrieved[r] # {}
    BY <1>7 DEF GenerateOk, RequestInv, StageInv
  <2>2. ASSUME NEW cited, cited \subseteq Ids(retrieved[r]), Succeed(r, "model", cited)
        PROVE  Contract!AnswerGrounded(r)
    BY <2>1, <2>2, GroundedAnswered
  <2>3. CASE Send(r, "strict") /\ UNCHANGED <<corpus, tenant, retrieved, response>>
    BY <2>1, <2>3, StepStutters DEF Send, PhaseOf
  <2> QED
    BY <1>7, <2>2, <2>3 DEF GenerateOk, Valid
<1>8. CASE StrictOk(r)
  <2>1. pc[r] = "strict" /\ retrieved[r] # {}
    BY <1>8 DEF StrictOk, RequestInv, StageInv
  <2>2. ASSUME NEW cited, cited \subseteq Ids(retrieved[r]), Succeed(r, "model", cited)
        PROVE  Contract!AnswerGrounded(r)
    BY <2>1, <2>2, GroundedAnswered
  <2>3. CASE Raise(r, "generate", 502)
    BY <2>1, <2>3, RaiseRefuses
  <2> QED
    BY <1>8, <2>2, <2>3 DEF StrictOk, Valid
<1>9. CASE Transient(r)
  <2>1. CASE UNCHANGED <<corpus, pc, tenant, retrieved, response>>
    <3>1. Phase' = Phase /\ Seen' = Seen
      BY <2>1 DEF Phase, Seen
    <3> QED
      BY <2>1, <3>1 DEF Contract!vars
  <2>2. CASE pc[r] \in Upstream /\ Raise(r, NodeOf(pc[r]), 500)
    BY <2>2, RaiseRefuses
  <2> QED
    BY <1>9, <2>1, <2>2 DEF Transient
<1>10. CASE Unparsable(r) \/ Fatal(r)
  <2>1. CASE pc[r] \in Upstream /\ Raise(r, NodeOf(pc[r]), 400)
    BY <2>1, RaiseRefuses
  <2>2. CASE pc[r] \in Upstream /\ Raise(r, NodeOf(pc[r]), 500)
    BY <2>2, RaiseRefuses
  <2> QED
    BY <1>10, <2>1, <2>2 DEF Unparsable, Fatal
<1> QED
  BY <1>1, <1>2, <1>3, <1>4, <1>5, <1>6, <1>7, <1>8, <1>9, <1>10 DEF Step

(* Every behaviour of the pipeline is one that QueryContract allows: retry *)
(* and strict retry, re-indexing between retrieval and answer, and other   *)
(* requests never let an answer mix tenants or cite what was not seen.     *)
THEOREM PipelineKeepsContract == Spec => KeepsContract
<1>1. Init => Contract!Init
  <2> SUFFICES ASSUME Init PROVE Contract!Init
    OBVIOUS
  <2>1. Phase = [r \in Requests |-> "idle"]
    BY DEF Init, Phase, PhaseOf
  <2>2. Seen = [r \in Requests |-> {}]
    BY DEF Init, Seen, Ids
  <2> QED
    BY <2>1, <2>2 DEF Init, Contract!Init
<1>2. IInv /\ IInv' /\ [Next]_vars => [Contract!Next]_(Contract!vars)
  <2> SUFFICES ASSUME IInv, IInv', [Next]_vars
               PROVE  Contract!Next \/ UNCHANGED Contract!vars
    OBVIOUS
  <2>1. ASSUME NEW r \in Requests, Arrive(r) \/ Step(r)
        PROVE  Contract!Next \/ UNCHANGED Contract!vars
    BY <2>1, StepContract DEF IInv, Contract!Next
  <2>2. CASE Upload
    <3>1. Phase' = Phase /\ Seen' = Seen
      BY <2>2 DEF Upload, request, Phase, Seen
    <3>2. corpus' \in [Docs -> Tenants \cup {Absent}] /\ UNCHANGED <<tenant, response>>
      BY <2>2 DEF IInv, TypeOK, Upload, request
    <3> QED
      BY <3>1, <3>2 DEF Contract!Next, Contract!Reindex
  <2>3. CASE UNCHANGED vars
    <3>1. Phase' = Phase /\ Seen' = Seen
      BY <2>3 DEF vars, request, Phase, Seen
    <3> QED
      BY <2>3, <3>1 DEF vars, request, Contract!vars
  <2> QED
    BY <2>1, <2>2, <2>3 DEF Next
<1> QED
  BY <1>1, <1>2, Inductive, PTL DEF Spec, KeepsContract, Contract!Spec

-----------------------------------------------------------------------------
(* The counters                                                            *)

\* The counters that the history of one request accounts for.
Owes(r, k) ==
  \/ k = "queriesSuccess" /\ Answered(r)
  \/ k = "queriesError" /\ Done(r) /\ response[r].status \in {400, 502}
  \/ k = "totalRequest" /\ Done(r) /\ response[r].status \in {200, 400, 502}
  \/ k = "retrievalErrors" /\ failedIn[r] = "retrieve"
  \/ k = "retrievalLatency" /\ \/ pc[r] \in {"retrieved", "generate", "strict"}
                               \/ Done(r) /\ failedIn[r] # "understand"
  \/ k = "generationErrors" /\ failedIn[r] = "generate"
  \/ k = "generationLatency" /\ (Answered(r) \/ failedIn[r] = "generate")

Owing(k) == {r \in Requests : Owes(r, k)}

MetricsInv ==
  /\ \A r \in Requests : pc[r] # "done" => failedIn[r] = None
  /\ \A k \in Counters : metrics[k] = Cardinality(Owing(k))

\* What the step of r adds to the counters, its history accounts for.
Accounts(r, C) ==
  /\ \A d \in Requests : pc'[d] # "done" => failedIn'[d] = None
  /\ \A k \in Counters, d \in Requests :
       Owes(d, k)' <=> Owes(d, k) \/ (d = r /\ k \in C)
  /\ \A k \in C : ~Owes(r, k)

LEMMA AccountsInv ==
  ASSUME TypeOK, MetricsInv, NEW r \in Requests, NEW C, Count(C), Accounts(r, C)
  PROVE  MetricsInv'
<1> SUFFICES ASSUME NEW k \in Counters PROVE metrics'[k] = Cardinality(Owing(k)')
  BY DEF MetricsInv, Accounts
<1>1. IsFiniteSet(Owing(k))
  BY RequestsAssumption, FS_Subset DEF Owing
<1>2. metrics[k] = Cardinality(Owing(k)) /\ metrics[k] \in Nat
  BY DEF MetricsInv, TypeOK
<1>3. CASE k \in C
  <2>1. Owing(k)' = Owing(k) \cup {r} /\ r \notin Owing(k)
    BY <1>3 DEF Owing, Accounts
  <2>2. Cardinality(Owing(k)') = Cardinality(Owing(k)) + 1
    BY <1>1, <2>1, FS_AddElement
  <2> QED
    BY <1>2, <1>3, <2>2 DEF Count
<1>4. CASE k \notin C
  <2>1. Owing(k)' = Owing(k)
    BY <1>4 DEF Owing, Accounts
  <2> QED
    BY <1>2, <1>4, <2>1 DEF Count
<1> QED
  BY <1>3, <1>4

\* A step that no counter sees.
LEMMA UncountedInv ==
  ASSUME MetricsInv, UNCHANGED <<failedIn, metrics>>,
         \A d \in Requests : response'[d] = response[d],
         \A d \in Requests : pc'[d] = "done" <=> pc[d] = "done",
         \A d \in Requests : pc'[d] \in {"retrieved", "generate", "strict"}
                               <=> pc[d] \in {"retrieved", "generate", "strict"}
  PROVE  MetricsInv'
<1>1. \A k \in Counters, d \in Requests : Owes(d, k)' <=> Owes(d, k)
  BY DEF Owes, Answered, Done
<1>2. \A k \in Counters : Owing(k)' = Owing(k)
  BY <1>1 DEF Owing
<1> QED
  BY <1>2 DEF MetricsInv

\* Where a request is when an exception leaves one of its nodes.
Inside(node) ==
  CASE node = "understand" -> {"understand"}
    [] node = "retrieve"   -> {"embed", "search"}
    [] node = "generate"   -> {"generate", "strict"}

LEMMA RaiseMetrics ==
  ASSUME TypeOK, MetricsInv, NEW r \in Requests, RequestInv(r),
         NEW node \in {"understand", "retrieve", "generate"}, NEW s \in {400, 500, 502},
         pc[r] \in Inside(node), Raise(r, node, s)
  PROVE  MetricsInv'
<1> DEFINE C == NodeCounts(node) \cup RouteCounts(s)
           answer == [status |-> s, text |-> None, cited |-> {}]
<1>1. /\ pc' = [pc EXCEPT ![r] = "done"] /\ response' = [response EXCEPT ![r] = answer]
      /\ failedIn' = [failedIn EXCEPT ![r] = node]
  BY DEF Raise, Finish
<1>2. answer # None /\ answer.status = s
  <2>1. answer \in Responses
    BY RefusalType
  <2>2. answer.status = s
    OBVIOUS
  <2> HIDE DEF answer
  <2> QED
    BY <2>1, <2>2, NoneAssumption
<1>3. response[r] = None /\ failedIn[r] = None /\ pc[r] # "done"
  BY DEF RequestInv, StageInv, MetricsInv, Inside
<1> HIDE DEF answer
<1>4. /\ pc'[r] = "done" /\ response'[r] = answer /\ failedIn'[r] = node
      /\ Done(r)' /\ response'[r].status = s
  BY <1>1, <1>2 DEF TypeOK, Done
<1>5. \A d \in Requests : d # r => /\ pc'[d] = pc[d] /\ response'[d] = response[d]
                                   /\ failedIn'[d] = failedIn[d]
  BY <1>1 DEF TypeOK
<1>6. \A d \in Requests, k \in Counters : d # r => (Owes(d, k)' <=> Owes(d, k))
  BY <1>5 DEF Owes, Answered, Done
<1>7. \A k \in Counters : /\ Owes(r, k)' <=> (Owes(r, k) \/ k \in C)
                          /\ k \in C => ~Owes(r, k)
  <2> SUFFICES ASSUME NEW k \in Counters
               PROVE  /\ Owes(r, k)' <=> (Owes(r, k) \/ k \in C)
                      /\ k \in C => ~Owes(r, k)
    OBVIOUS
  <2>1. /\ ~Done(r) /\ ~Answered(r) /\ (Answered(r)' <=> s = 200)
    BY <1>3, <1>4 DEF Done, Answered
  <2>2. Owes(r, k) <=> k = "retrievalLatency" /\ pc[r] \in {"retrieved", "generate", "strict"}
    BY <1>3, <2>1, NoneAssumption DEF Owes
  <2>3. Owes(r, k)' <=> \/ k \in {"queriesError", "totalRequest"} /\ s \in {400, 502}
                        \/ k = "retrievalErrors" /\ node = "retrieve"
                        \/ k = "retrievalLatency" /\ node # "understand"
                        \/ k \in {"generationErrors", "generationLatency"} /\ node = "generate"
    BY <1>4, <2>1 DEF Owes
  <2> QED
    BY <2>2, <2>3 DEF NodeCounts, RouteCounts, Inside
<1>8. C \subseteq Counters
  BY DEF NodeCounts, RouteCounts, Counters
<1>9. Accounts(r, C)
  BY <1>3, <1>4, <1>5, <1>6, <1>7, <1>8 DEF Accounts, MetricsInv
<1>10. Count(C)
  BY DEF Raise
<1> HIDE DEF C
<1> QED
  BY <1>9, <1>10, AccountsInv

LEMMA UpstreamInside ==
  ASSUME NEW p \in Upstream
  PROVE  p \in Inside(NodeOf(p))
BY DEF Upstream, Inside, NodeOf

\* An answer: its latency and its success; the retrieval is on the counter.
LEMMA SucceedMetrics ==
  ASSUME TypeOK, MetricsInv, NEW r \in Requests, RequestInv(r),
         NEW text \in {"model", "none_found"}, NEW cited, cited \subseteq Ids(retrieved[r]),
         pc[r] \in {"retrieved", "generate", "strict"}, Succeed(r, text, cited)
  PROVE  MetricsInv'
<1> DEFINE C == {"generationLatency", "queriesSuccess", "totalRequest"}
           answer == [status |-> 200, text |-> text, cited |-> cited]
<1>1. /\ pc' = [pc EXCEPT ![r] = "done"] /\ response' = [response EXCEPT ![r] = answer]
      /\ UNCHANGED failedIn /\ Count(C)
  BY DEF Succeed, Finish
<1>2. answer # None /\ answer.status = 200
  <2>1. cited \in SUBSET Docs
    BY IdsOfType DEF TypeOK
  <2>2. answer \in Responses
    BY <2>1, AnswerType
  <2>3. answer.status = 200
    OBVIOUS
  <2> HIDE DEF answer
  <2> QED
    BY <2>2, <2>3, NoneAssumption
<1>3. response[r] = None /\ failedIn[r] = None
  BY DEF RequestInv, StageInv, MetricsInv
<1> HIDE DEF answer
<1>4. /\ pc'[r] = "done" /\ failedIn'[r] = None /\ Done(r)' /\ Answered(r)'
      /\ response'[r].status = 200
  BY <1>1, <1>2, <1>3 DEF TypeOK, Done, Answered
<1>5. \A d \in Requests : d # r => /\ pc'[d] = pc[d] /\ response'[d] = response[d]
                                   /\ failedIn'[d] = failedIn[d]
  BY <1>1 DEF TypeOK
<1>6. \A d \in Requests, k \in Counters : d # r => (Owes(d, k)' <=> Owes(d, k))
  BY <1>5 DEF Owes, Answered, Done
<1>7. \A k \in Counters : /\ Owes(r, k)' <=> (Owes(r, k) \/ k \in C)
                          /\ k \in C => ~Owes(r, k)
  <2> SUFFICES ASSUME NEW k \in Counters
               PROVE  /\ Owes(r, k)' <=> (Owes(r, k) \/ k \in C)
                      /\ k \in C => ~Owes(r, k)
    OBVIOUS
  <2>1. Owes(r, k) <=> k = "retrievalLatency"
    BY <1>3, NoneAssumption DEF Owes, Answered, Done
  <2>2. None \notin {"understand", "retrieve", "generate"}
    BY NoneAssumption
  <2>3. Owes(r, k)' <=> \/ k \in {"queriesSuccess", "totalRequest"}
                        \/ k \in {"retrievalLatency", "generationLatency"}
    BY <1>4, <2>2 DEF Owes
  <2> QED
    BY <2>1, <2>3
<1>8. C \subseteq Counters
  BY DEF Counters
<1>9. Accounts(r, C)
  BY <1>3, <1>4, <1>5, <1>6, <1>7, <1>8 DEF Accounts, MetricsInv
<1> QED
  BY <1>1, <1>9, AccountsInv

LEMMA SearchOkMetrics ==
  ASSUME TypeOK, MetricsInv, NEW r \in Requests, RequestInv(r), SearchOk(r)
  PROVE  MetricsInv'
<1> DEFINE C == {"retrievalLatency"}
<1>1. /\ pc[r] = "search" /\ pc' = [pc EXCEPT ![r] = "retrieved"]
      /\ Count(C) /\ UNCHANGED <<response, failedIn>>
  BY DEF SearchOk
<1>2. response[r] = None /\ failedIn[r] = None
  BY <1>1 DEF RequestInv, StageInv, MetricsInv
<1>3. pc'[r] = "retrieved" /\ \A d \in Requests : d # r => pc'[d] = pc[d]
  BY <1>1 DEF TypeOK
<1>4. \A d \in Requests, k \in Counters : d # r => (Owes(d, k)' <=> Owes(d, k))
  BY <1>1, <1>3 DEF Owes, Answered, Done
<1>5. \A k \in Counters : ~Owes(r, k) /\ (Owes(r, k)' <=> k \in C)
  BY <1>1, <1>2, <1>3, NoneAssumption DEF Owes, Answered, Done
<1>6. Accounts(r, C)
  BY <1>1, <1>2, <1>3, <1>4, <1>5 DEF Accounts, MetricsInv, Counters
<1> QED
  BY <1>1, <1>6, AccountsInv

\* A call that is sent counts nothing, wherever in its phase it starts.
LEMMA SendMetrics ==
  ASSUME TypeOK, MetricsInv, NEW r \in Requests, NEW where, pc' = [pc EXCEPT ![r] = where],
         \/ /\ pc[r] \in {"idle", "understand", "embed"}
            /\ where \in {"understand", "embed", "search"}
         \/ pc[r] \in {"retrieved", "generate"} /\ where \in {"generate", "strict"},
         UNCHANGED <<response, failedIn, metrics>>
  PROVE  MetricsInv'
<1>1. \A d \in Requests : pc'[d] = IF d = r THEN where ELSE pc[d]
  BY DEF TypeOK
<1> QED
  BY <1>1, UncountedInv

LEMMA StepMetrics ==
  ASSUME TypeOK, MetricsInv, NEW r \in Requests, RequestInv(r), Arrive(r) \/ Step(r)
  PROVE  MetricsInv'
<1>1. CASE Arrive(r)
  BY <1>1, SendMetrics DEF Arrive, Send
<1>2. CASE UnderstandOk(r)
  BY <1>2, SendMetrics DEF UnderstandOk, Send
<1>3. CASE EmbedOk(r)
  <2>1. CASE Raise(r, "retrieve", 400)
    BY <1>3, <2>1, RaiseMetrics DEF EmbedOk, Inside
  <2>2. CASE ~Raise(r, "retrieve", 400)
    BY <1>3, <2>2, SendMetrics DEF EmbedOk
  <2> QED
    BY <2>1, <2>2
<1>4. CASE SearchOk(r)
  BY <1>4, SearchOkMetrics
<1>5. CASE SearchFails(r)
  BY <1>5, RaiseMetrics DEF SearchFails, Inside
<1>6. CASE Generate(r)
  <2>1. CASE Succeed(r, "none_found", {})
    BY <1>6, <2>1, SucceedMetrics DEF Generate
  <2>2. CASE Send(r, "generate") /\ UNCHANGED <<response, failedIn, metrics>>
    BY <1>6, <2>2, SendMetrics DEF Generate, Send
  <2> QED
    BY <1>6, <2>1, <2>2 DEF Generate
<1>7. CASE GenerateOk(r)
  <2>1. ASSUME NEW cited, cited \subseteq Ids(retrieved[r]), Succeed(r, "model", cited)
        PROVE  MetricsInv'
    BY <1>7, <2>1, SucceedMetrics DEF GenerateOk
  <2>2. CASE Send(r, "strict") /\ UNCHANGED <<response, failedIn, metrics>>
    BY <1>7, <2>2, SendMetrics DEF GenerateOk, Send
  <2> QED
    BY <1>7, <2>1, <2>2 DEF GenerateOk, Valid
<1>8. CASE StrictOk(r)
  <2>1. ASSUME NEW cited, cited \subseteq Ids(retrieved[r]), Succeed(r, "model", cited)
        PROVE  MetricsInv'
    BY <1>8, <2>1, SucceedMetrics DEF StrictOk
  <2>2. CASE Raise(r, "generate", 502)
    BY <1>8, <2>2, RaiseMetrics DEF StrictOk, Inside
  <2> QED
    BY <1>8, <2>1, <2>2 DEF StrictOk, Valid
<1>9. CASE Transient(r)
  <2>1. CASE UNCHANGED <<pc, response, failedIn, metrics>>
    BY <2>1, UncountedInv
  <2>2. CASE pc[r] \in Upstream /\ Raise(r, NodeOf(pc[r]), 500)
    BY <2>2, UpstreamInside, NodeOfType, RaiseMetrics
  <2> QED
    BY <1>9, <2>1, <2>2 DEF Transient
<1>10. CASE Unparsable(r) \/ Fatal(r)
  <2>1. pc[r] \in Upstream /\ \E s \in {400, 500} : Raise(r, NodeOf(pc[r]), s)
    BY <1>10 DEF Unparsable, Fatal
  <2> QED
    BY <2>1, UpstreamInside, NodeOfType, RaiseMetrics
<1> QED
  BY <1>1, <1>2, <1>3, <1>4, <1>5, <1>6, <1>7, <1>8, <1>9, <1>10 DEF Step

LEMMA InitMetrics == Init => MetricsInv
<1> SUFFICES ASSUME Init PROVE MetricsInv
  OBVIOUS
<1>1. \A r \in Requests : pc[r] = "idle" /\ response[r] = None /\ failedIn[r] = None
  BY DEF Init
<1>2. \A k \in Counters : Owing(k) = {}
  BY <1>1, NoneAssumption DEF Owing, Owes, Answered, Done
<1>3. \A k \in Counters : metrics[k] = 0
  BY DEF Init
<1> QED
  BY <1>1, <1>2, <1>3, FS_EmptySet DEF MetricsInv

LEMMA NextMetrics == IInv /\ MetricsInv /\ [Next]_vars => MetricsInv'
<1> SUFFICES ASSUME IInv, MetricsInv, [Next]_vars PROVE MetricsInv'
  OBVIOUS
<1>1. ASSUME NEW r \in Requests, Arrive(r) \/ Step(r) PROVE MetricsInv'
  BY <1>1, StepMetrics DEF IInv
<1>2. CASE UNCHANGED <<request, metrics>>
  BY <1>2, UncountedInv DEF request
<1> QED
  BY <1>1, <1>2 DEF Next, Upload, vars

\* What the sets of MetricsInv say of the counters by name.
LEMMA MetricsInvBalances ==
  ASSUME MetricsInv
  PROVE  MetricsBalance
<1>1. \A k \in Counters : metrics[k] = Cardinality(Owing(k)) /\ IsFiniteSet(Owing(k))
  BY RequestsAssumption, FS_Subset DEF MetricsInv, Owing
<1>2. Owing("queriesSuccess") = {r \in Requests : Answered(r)}
  BY DEF Owing, Owes
<1>3. Owing("queriesError") = {r \in Requests : Done(r) /\ response[r].status \in {400, 502}}
  BY DEF Owing, Owes
<1>4. Owing("retrievalErrors") = {r \in Requests : failedIn[r] = "retrieve"}
  BY DEF Owing, Owes
<1>5. Owing("retrievalLatency") =
        {r \in Requests : \/ pc[r] \in {"retrieved", "generate", "strict"}
                          \/ Done(r) /\ failedIn[r] # "understand"}
  BY DEF Owing, Owes
<1>6. Owing("generationErrors") = {r \in Requests : failedIn[r] = "generate"}
  BY DEF Owing, Owes
<1>7. Owing("generationLatency") = {r \in Requests : Answered(r) \/ failedIn[r] = "generate"}
  BY DEF Owing, Owes
<1>8. metrics["totalRequest"] = metrics["queriesSuccess"] + metrics["queriesError"]
  <2> DEFINE A == Owing("queriesSuccess")
             B == Owing("queriesError")
  <2>1. Owing("totalRequest") = A \cup B /\ A \cap B = {}
    BY DEF Owing, Owes, Answered
  <2>2. IsFiniteSet(A) /\ IsFiniteSet(B)
    BY <1>1 DEF Counters
  <2>3. Cardinality(A \cup B) = Cardinality(A) + Cardinality(B)
    <3> HIDE DEF A, B
    <3>1. Cardinality(A \cup B) = Cardinality(A) + Cardinality(B) - Cardinality(A \cap B)
      BY <2>2, FS_Union
    <3>2. Cardinality(A \cap B) = 0
      BY <2>1, FS_EmptySet
    <3>3. Cardinality(A) \in Nat /\ Cardinality(B) \in Nat
      BY <2>2, FS_CardinalityType
    <3> QED
      BY <3>1, <3>2, <3>3
  <2> QED
    BY <1>1, <2>1, <2>3 DEF Counters
<1>9. metrics["queriesError"] <=
        Cardinality({r \in Requests : Done(r) /\ response[r].status # 200})
  <2> DEFINE B == Owing("queriesError")
             F == {r \in Requests : Done(r) /\ response[r].status # 200}
  <2>1. B \subseteq F
    BY <1>3
  <2>2. IsFiniteSet(F)
    BY RequestsAssumption, FS_Subset
  <2>3. Cardinality(B) <= Cardinality(F)
    <3> HIDE DEF B, F
    <3> QED
      BY <2>1, <2>2, FS_Subset
  <2> QED
    BY <1>1, <2>3 DEF Counters
<1>10. metrics["queriesError"] \in Nat
  BY <1>1, FS_CardinalityType DEF Counters
<1>11. \A k \in Counters : metrics[k] = Cardinality(Owing(k))
  BY <1>1
<1>12. metrics["queriesError"] >=
         Cardinality({r \in Requests : Done(r) /\ response[r].status \in {400, 502}})
  BY <1>3, <1>10, <1>11 DEF Counters
<1> QED
  BY <1>2, <1>4, <1>5, <1>6, <1>7, <1>8, <1>9, <1>11, <1>12 DEF MetricsBalance, CountOf, Counters

(* At every moment the counters of /metrics are true of the requests so    *)
(* far, however they interleave and wherever they fail: the invariant says *)
(* exactly which requests each of them counts.                             *)
THEOREM MetricsBalanced == Spec => []MetricsBalance
<1>1. Init => MetricsInv
  BY InitMetrics
<1>2. IInv /\ MetricsInv /\ [Next]_vars => MetricsInv'
  BY NextMetrics
<1>3. MetricsInv => MetricsBalance
  BY MetricsInvBalances
<1> QED
  BY <1>1, <1>2, <1>3, Inductive, PTL DEF Spec
=============================================================================
