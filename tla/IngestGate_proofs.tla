-------------------------- MODULE IngestGate_proofs --------------------------
(***************************************************************************)
(* Proofs about IngestGate, for every number of replicas, of tasks and of  *)
(* operators' runs, over every index of CorpusIndex: a step of the route   *)
(* is a step of its pipeline or leaves the pipeline alone; the lock, the   *)
(* counters and the clients of a task keep in step with it.                *)
(***************************************************************************)
EXTENDS IngestGate, CorpusIndex_proofs

\* The types of what the gate adds to the pipeline.
GateRest ==
  /\ lock \in [Replicas -> Tasks \cup {None}]
  /\ task \in [Tasks -> {"none", "scheduled", "running", "closed"} \cup Resources]
  /\ open \in [Tasks -> SUBSET Resources]
  /\ failing \in [Tasks -> BOOLEAN]
  /\ metric \in [Replicas -> [Counted -> Nat]]
  /\ posts \in [Replicas -> 0 .. MaxPosts]

-----------------------------------------------------------------------------
(* The gate and the pipeline                                               *)

LEMMA TasksWrite == \A w \in Tasks : w \in Writers /\ ReplicaOf[w] \in Replicas /\ w # None
BY GateAssumption DEF Tasks

LEMMA PipelineStep == [GateNext]_gateVars => [Next]_vars
<1> SUFFICES ASSUME [GateNext]_gateVars PROVE [Next]_vars
  OBVIOUS
<1>1. ASSUME NEW w \in Tasks, Accept(w) \/ TaskStep(w) PROVE [Next]_vars
  BY <1>1, TasksWrite DEF Accept, TaskStep, Begin, Run, OpenFails, Close, Finish, Advance, Next
<1>2. ASSUME NEW p \in Replicas, Conflict(p) \/ KillReplica(p) PROVE [Next]_vars
  BY <1>2, TasksWrite DEF Conflict, KillReplica, Next
<1>3. ASSUME NEW w \in Cli, Operator(w) PROVE [Next]_vars
  BY <1>3, WritersAssumption DEF Operator, Next
<1>4. CASE Author \/ UNCHANGED gateVars
  BY <1>4 DEF Author, gateVars, Next
<1> QED
  BY <1>1, <1>2, <1>3, <1>4 DEF GateNext

(* Whatever the route, the platform and the operators do, the index only   *)
(* sees runs of the pipeline: the theorems about CorpusIndex hold behind   *)
(* the gate.                                                               *)
THEOREM GateUsesPipeline == GateSpec => Spec
<1>1. GateInit => Init
  BY DEF GateInit
<1> QED
  BY <1>1, PipelineStep, PTL DEF GateSpec, Spec

-----------------------------------------------------------------------------
(* The parts of a step                                                     *)

LEMMA FourResources ==
  /\ Resources = {"embedder", "search_client", "search_index_client", "credential"}
  /\ DOMAIN Closables = 1 .. 4 /\ Len(Closables) = 4
BY DEF Resources, Closables

LEMMA AfterValues ==
  /\ After("embedder") = "search_client"
  /\ After("search_client") = "search_index_client"
  /\ After("search_index_client") = "credential"
  /\ After("credential") = "closed"
<1>1. ASSUME NEW n \in 1 .. 4
      PROVE  (CHOOSE k \in DOMAIN Closables : Closables[k] = Closables[n]) = n
  <2>1. \A k \in 1 .. 4 : Closables[k] = Closables[n] => k = n
    BY DEF Closables
  <2> QED
    BY <2>1, FourResources
<1>2. /\ Closables[1] = "embedder" /\ Closables[2] = "search_client"
      /\ Closables[3] = "search_index_client" /\ Closables[4] = "credential"
  BY DEF Closables
<1> QED
  BY <1>1, <1>2, FourResources DEF After

\* What counting does to the counters.
LEMMA IncValues ==
  ASSUME GateRest, NEW p \in Replicas, NEW C \in SUBSET Counted, NEW n \in Nat, Inc(p, C, n)
  PROVE  /\ metric' \in [Replicas -> [Counted -> Nat]]
         /\ \A q \in Replicas \ {p} : metric'[q] = metric[q]
         /\ \A k \in C : metric'[p][k] = metric[p][k] + n
         /\ \A k \in Counted \ C : metric'[p][k] = metric[p][k]
<1> DEFINE row == [k \in Counted |-> metric[p][k] + IF k \in C THEN n ELSE 0]
<1>1. metric[p] \in [Counted -> Nat]
  BY DEF GateRest
<1>2. row \in [Counted -> Nat]
  BY <1>1
<1>3. metric' = [metric EXCEPT ![p] = row]
  BY DEF Inc
<1> HIDE DEF row
<1>4. metric'[p] = row /\ \A q \in Replicas \ {p} : metric'[q] = metric[q]
  BY <1>3 DEF GateRest
<1>5. metric' \in [Replicas -> [Counted -> Nat]]
  BY <1>2, <1>3 DEF GateRest
<1>6. /\ \A k \in C : row[k] = metric[p][k] + n
      /\ \A k \in Counted \ C : row[k] = metric[p][k]
  BY <1>1 DEF row
<1> QED
  BY <1>4, <1>5, <1>6

\* What the end of a task does, whatever the run has left.
LEMMA EndTaskValues ==
  ASSUME GateRest, NEW w \in Tasks, NEW s \in {"success", "error"}, EndTask(w, s)
  PROVE  /\ GateRest'
         /\ task'[w] = "none" /\ open'[w] = {} /\ ~failing'[w]
         /\ \A v \in Tasks \ {w} : task'[v] = task[v] /\ open'[v] = open[v]
                                   /\ failing'[v] = failing[v]
         /\ lock'[ReplicaOf[w]] = None
         /\ \A q \in Replicas \ {ReplicaOf[w]} : lock'[q] = lock[q] /\ metric'[q] = metric[q]
         /\ \A k \in {s, "duration"} : metric'[ReplicaOf[w]][k] = metric[ReplicaOf[w]][k] + 1
         /\ \A k \in Counted \ {s, "duration"} :
              metric'[ReplicaOf[w]][k] = metric[ReplicaOf[w]][k]
         /\ UNCHANGED posts
<1> DEFINE p == ReplicaOf[w]
<1>1. p \in Replicas /\ {s, "duration"} \in SUBSET Counted
  BY TasksWrite DEF Counted
<1>2. Inc(p, {s, "duration"}, 1) /\ UNCHANGED posts
  BY DEF EndTask
<1>3. /\ metric' \in [Replicas -> [Counted -> Nat]]
      /\ \A q \in Replicas \ {p} : metric'[q] = metric[q]
      /\ \A k \in {s, "duration"} : metric'[p][k] = metric[p][k] + 1
      /\ \A k \in Counted \ {s, "duration"} : metric'[p][k] = metric[p][k]
  BY <1>1, <1>2, IncValues
<1>4. /\ task' = [task EXCEPT ![w] = "none"] /\ open' = [open EXCEPT ![w] = {}]
      /\ failing' = [failing EXCEPT ![w] = FALSE] /\ lock' = [lock EXCEPT ![p] = None]
  BY DEF EndTask
<1> HIDE DEF p
<1>5. /\ task'[w] = "none" /\ open'[w] = {} /\ ~failing'[w] /\ lock'[p] = None
      /\ \A v \in Tasks \ {w} : task'[v] = task[v] /\ open'[v] = open[v]
                                /\ failing'[v] = failing[v]
      /\ \A q \in Replicas \ {p} : lock'[q] = lock[q]
  BY <1>1, <1>4 DEF GateRest
<1>6. GateRest'
  BY <1>1, <1>2, <1>3, <1>4 DEF GateRest
<1> QED
  BY <1>2, <1>3, <1>5, <1>6 DEF p

-----------------------------------------------------------------------------
(* The steps of the pipeline, as the gate sees them                        *)

\* A step of a run, not its death.
LEMMA AdvanceRun ==
  ASSUME BaseInv, NEW w \in Writers, Advance(w)
  PROVE  /\ uploaded'[w] \in Nat
         /\ stage[w] # "idle"
         /\ stage'[w] = "idle" => outcome'[w] \in {"success", "error"}
         /\ \A u \in Writers \ {w} : stage'[u] = stage[u]
<1>1. RunType' /\ \A u \in Writers \ {w} : Same4(u)
  BY RunStep
<1>2. uploaded'[w] \in Nat
  BY <1>1, SizesAssumption DEF RunType
<1>3. stage[w] # "idle"
  BY DEF Advance, Fetch, Chunk, Sweep, Embed, Upload, Raise
<1>4. stage'[w] = "idle" => End(w, "success") \/ End(w, "error")
  <2>1. CASE Raise(w)
    BY <2>1 DEF Raise
  <2>2. CASE (\E s \in Sources : Fetch(w, s)) \/ Embed(w)
    BY <1>3, <2>2 DEF Fetch, Embed, BaseInv, TypeOK
  <2>3. CASE Chunk(w) \/ Sweep(w) \/ Upload(w)
    BY <1>3, <2>3 DEF Chunk, Sweep, Upload, BaseInv, TypeOK
  <2> QED
    BY <2>1, <2>2, <2>3 DEF Advance
<1>5. stage'[w] = "idle" => outcome'[w] \in {"success", "error"}
  BY <1>4 DEF End, BaseInv, TypeOK
<1> QED
  BY <1>1, <1>2, <1>3, <1>5 DEF Same4

LEMMA StartRun ==
  ASSUME BaseInv, NEW w \in Writers, Start(w)
  PROVE  /\ stage[w] = "idle" /\ stage'[w] = "fetching"
         /\ \A u \in Writers \ {w} : stage'[u] = stage[u]
BY DEF Start, BaseInv, TypeOK

LEMMA KillRun ==
  ASSUME BaseInv, NEW w \in Writers, Kill(w)
  PROVE  /\ stage'[w] = "idle"
         /\ \A u \in Writers \ {w} : stage'[u] = stage[u]
BY DEF Kill, End, BaseInv, TypeOK

-----------------------------------------------------------------------------
(* Types                                                                   *)

LEMMA StepRest == BaseInv /\ GateRest /\ [GateNext]_gateVars => GateRest'
<1> SUFFICES ASSUME BaseInv, GateRest, [GateNext]_gateVars PROVE GateRest'
  OBVIOUS
<1>1. ASSUME NEW w \in Tasks, Accept(w) PROVE GateRest'
  BY <1>1, TasksWrite, GateAssumption DEF Accept, GateRest
<1>2. ASSUME NEW w \in Tasks, NEW s \in {"success", "error"}, EndTask(w, s) PROVE GateRest'
  BY <1>2, EndTaskValues
<1>3. ASSUME NEW w \in Tasks, Begin(w) PROVE GateRest'
  BY <1>2, <1>3 DEF Begin, GateRest
<1>4. ASSUME NEW w \in Tasks, Run(w) PROVE GateRest'
  <2> DEFINE p == ReplicaOf[w]
  <2>1. /\ p \in Replicas /\ Advance(w) /\ w \in Writers
        /\ uploaded'[w] \in Nat
    BY <1>4, TasksWrite, AdvanceRun DEF Run
  <2>3. ASSUME Summary(w) PROVE metric' \in [Replicas -> [Counted -> Nat]]
    <3>1. CASE Inc(p, {"chunks"}, uploaded'[w])
      <4>1. {"chunks"} \in SUBSET Counted
        BY DEF Counted
      <4> HIDE DEF p
      <4> QED
        BY <2>1, <3>1, <4>1, IncValues
    <3> QED
      BY <2>3, <3>1 DEF Summary, GateRest
  <2>4. CASE EndTask(w, "error")
    BY <1>2, <2>4
  <2>5. CASE /\ open' = [open EXCEPT ![w] = IF stage'[w] = "sweeping" THEN Resources ELSE @]
             /\ UNCHANGED <<lock, task, failing, metric, posts>>
    BY <2>5 DEF GateRest
  <2>6. CASE /\ task' = [task EXCEPT ![w] = "embedder"]
             /\ failing' = [failing EXCEPT ![w] = outcome'[w] = "error"]
             /\ Summary(w)
             /\ UNCHANGED <<lock, open, posts>>
    <3>1. task' \in [Tasks -> {"none", "scheduled", "running", "closed"} \cup Resources]
      BY <2>6, FourResources DEF GateRest
    <3>2. failing' \in [Tasks -> BOOLEAN]
      BY <2>6 DEF GateRest
    <3> QED
      BY <2>3, <2>6, <3>1, <3>2 DEF GateRest
  <2> QED
    BY <1>4, <2>4, <2>5, <2>6 DEF Run
<1>5. ASSUME NEW w \in Tasks, Close(w) PROVE GateRest'
  <2>1. /\ task[w] \in Resources
        /\ task' = [task EXCEPT ![w] = After(@)]
             \/ task' = [task EXCEPT ![w] = IF @ = "credential" THEN "closed" ELSE "credential"]
        /\ failing' = failing \/ failing' = [failing EXCEPT ![w] = TRUE]
        /\ \E A : open' = [open EXCEPT ![w] = @ \ A]
        /\ UNCHANGED <<lock, metric, posts>>
    BY <1>5 DEF Close
  <2>2. After(task[w]) \in Resources \cup {"closed"}
    BY <2>1, FourResources, AfterValues
  <2>3. task' \in [Tasks -> {"none", "scheduled", "running", "closed"} \cup Resources]
    BY <2>1, <2>2, FourResources DEF GateRest
  <2> QED
    BY <2>1, <2>3 DEF GateRest
<1>6. ASSUME NEW w \in Tasks, Finish(w) PROVE GateRest'
  BY <1>2, <1>6 DEF Finish
<1>7. ASSUME NEW p \in Replicas, Conflict(p) PROVE GateRest'
  <2>1. metric' \in [Replicas -> [Counted -> Nat]]
    BY <1>7, IncValues DEF Conflict, Counted
  <2>2. posts' \in [Replicas -> 0 .. MaxPosts]
    <3>1. posts[p] + 1 \in 0 .. MaxPosts
      BY <1>7, GateAssumption DEF Conflict, GateRest
    <3> QED
      BY <1>7, <3>1 DEF Conflict, GateRest
  <2>3. UNCHANGED <<lock, task, open, failing>>
    BY <1>7 DEF Conflict
  <2> QED
    BY <2>1, <2>2, <2>3 DEF GateRest
<1>8. ASSUME NEW p \in Replicas, KillReplica(p) PROVE GateRest'
  <2>1. 0 \in 0 .. MaxPosts
    BY GateAssumption
  <2> QED
    BY <1>8, <2>1 DEF KillReplica, GateRest
<1>9. ASSUME (\E w \in Cli : Operator(w)) \/ Author \/ UNCHANGED gateVars PROVE GateRest'
  BY <1>9 DEF Operator, Author, gateVars, gate, GateRest
<1>10. ASSUME NEW w \in Tasks, OpenFails(w) PROVE GateRest'
  <2>1. PICK B \in Built : open' = [open EXCEPT ![w] = B \cup {"credential"}]
    BY <1>10 DEF OpenFails
  <2>2. B \cup {"credential"} \subseteq Resources /\ "credential" \in Resources
    BY FourResources DEF Built
  <2> QED
    BY <1>10, <2>1, <2>2 DEF OpenFails, GateRest
<1> QED
  BY <1>1, <1>3, <1>4, <1>5, <1>6, <1>7, <1>8, <1>9, <1>10 DEF GateNext, TaskStep

-----------------------------------------------------------------------------
(* The invariant                                                           *)

\* The lock of a task, and the run inside it.
Guards(w) ==
  /\ task[w] # "none" <=> lock[ReplicaOf[w]] = w
  /\ stage[w] # "idle" <=> task[w] = "running"

\* A task that has met no exception has closed all that comes before.
Opens(w) ==
  ~failing[w] =>
    /\ task[w] = "search_client" =>
         open[w] \subseteq {"search_client", "search_index_client", "credential"}
    /\ task[w] = "search_index_client" =>
         open[w] \subseteq {"search_index_client", "credential"}
    /\ task[w] = "credential" => open[w] \subseteq {"credential"}
    /\ task[w] = "closed" => open[w] = {}

\* The counters of a replica.
Counts(p) ==
  /\ posts[p] = metric[p]["conflict"] + metric[p]["success"] + metric[p]["error"]
                 + IF lock[p] = None THEN 0 ELSE 1
  /\ metric[p]["duration"] = metric[p]["success"] + metric[p]["error"]

InStep ==
  /\ \A w \in Tasks : Guards(w) /\ Opens(w)
  /\ \A p \in Replicas : Counts(p)

GateInv == BaseInv /\ GateRest /\ InStep

\* What a step of the task w leaves alone.
Aside(w) ==
  /\ \A v \in Tasks \ {w} :
       /\ task'[v] = task[v] /\ open'[v] = open[v] /\ failing'[v] = failing[v]
       /\ stage'[v] = stage[v]
  /\ \A q \in Replicas \ {ReplicaOf[w]} :
       /\ lock'[q] = lock[q] /\ metric'[q] = metric[q]
       /\ posts'[q] = posts[q]

\* A step of w, which holds the lock before or after it or both, need only
\* be looked at from w and its replica.
LEMMA OneTask ==
  ASSUME GateInv, NEW w \in Tasks, Aside(w),
         lock[ReplicaOf[w]] \in {None, w}, lock'[ReplicaOf[w]] \in {None, w},
         Guards(w)', Opens(w)', Counts(ReplicaOf[w])'
  PROVE  InStep'
<1>1. ASSUME NEW v \in Tasks \ {w} PROVE Guards(v)' /\ Opens(v)'
  <2>1. /\ Guards(v) /\ Opens(v)
        /\ v # w /\ v # None /\ ReplicaOf[v] \in Replicas
    BY TasksWrite DEF GateInv, InStep
  <2>2. /\ task'[v] = task[v] /\ open'[v] = open[v] /\ failing'[v] = failing[v]
        /\ stage'[v] = stage[v]
    BY DEF Aside
  <2>3. CASE ReplicaOf[v] = ReplicaOf[w]
    BY <2>1, <2>2, <2>3 DEF Guards, Opens
  <2>4. CASE ReplicaOf[v] # ReplicaOf[w]
    <3>1. lock'[ReplicaOf[v]] = lock[ReplicaOf[v]]
      BY <2>1, <2>4 DEF Aside
    <3> QED
      BY <2>1, <2>2, <3>1 DEF Guards, Opens
  <2> QED
    BY <2>3, <2>4
<1>2. ASSUME NEW q \in Replicas \ {ReplicaOf[w]} PROVE Counts(q)'
  BY DEF GateInv, InStep, Counts, Aside
<1> QED
  BY <1>1, <1>2 DEF InStep

\* What the invariant says of a task and of its counters.
LEMMA OfTask ==
  ASSUME GateInv, NEW w \in Tasks
  PROVE  /\ Guards(w) /\ Opens(w) /\ Counts(ReplicaOf[w])
         /\ w \in Writers /\ w # None /\ ReplicaOf[w] \in Replicas
         /\ metric[ReplicaOf[w]] \in [Counted -> Nat]
         /\ posts[ReplicaOf[w]] \in Nat
BY TasksWrite, GateAssumption DEF GateInv, InStep, GateRest

LEMMA StepAccept ==
  ASSUME GateInv, NEW w \in Tasks, Accept(w)
  PROVE  InStep'
<1> DEFINE p == ReplicaOf[w]
<1>1. /\ Guards(w) /\ Opens(w) /\ Counts(p) /\ w # None /\ p \in Replicas
      /\ metric[p] \in [Counted -> Nat] /\ posts[p] \in Nat
  BY OfTask
<1>2. /\ lock[p] = None /\ task[w] = "none"
      /\ lock' = [lock EXCEPT ![p] = w] /\ task' = [task EXCEPT ![w] = "scheduled"]
      /\ posts' = [posts EXCEPT ![p] = @ + 1]
      /\ UNCHANGED <<vars, open, failing, metric>>
  BY DEF Accept
<1> HIDE DEF p
<1>3. /\ lock'[p] = w /\ task'[w] = "scheduled" /\ posts'[p] = posts[p] + 1
      /\ \A v \in Tasks \ {w} : task'[v] = task[v]
      /\ \A q \in Replicas \ {p} : lock'[q] = lock[q] /\ posts'[q] = posts[q]
      /\ UNCHANGED <<stage, open, failing, metric>>
  BY <1>1, <1>2 DEF GateInv, GateRest, vars, run
<1>4. Aside(w) /\ Guards(w)' /\ Opens(w)'
  BY <1>1, <1>2, <1>3, FourResources DEF Aside, Guards, Opens, p
<1>5. Counts(p)'
  BY <1>1, <1>2, <1>3, FourResources DEF Counts, Counted, p
<1> QED
  BY <1>1, <1>2, <1>3, <1>4, <1>5, OneTask DEF p

\* The end of a task that has an exception, or has had none.
LEMMA StepEnd ==
  ASSUME GateInv, NEW w \in Tasks, NEW s \in {"success", "error"}, EndTask(w, s),
         task[w] # "none", stage'[w] = "idle",
         s = "success" => task[w] = "closed" /\ ~failing[w],
         \A v \in Tasks \ {w} : stage'[v] = stage[v]
  PROVE  InStep'
<1> DEFINE p == ReplicaOf[w]
<1>1. /\ Guards(w) /\ Opens(w) /\ Counts(p) /\ w # None /\ p \in Replicas
      /\ metric[p] \in [Counted -> Nat] /\ posts[p] \in Nat
  BY OfTask
<1>2. /\ task'[w] = "none" /\ open'[w] = {} /\ ~failing'[w]
      /\ \A v \in Tasks \ {w} : task'[v] = task[v] /\ open'[v] = open[v]
                                /\ failing'[v] = failing[v]
      /\ lock'[p] = None
      /\ \A q \in Replicas \ {p} : lock'[q] = lock[q] /\ metric'[q] = metric[q]
      /\ \A k \in {s, "duration"} : metric'[p][k] = metric[p][k] + 1
      /\ \A k \in Counted \ {s, "duration"} : metric'[p][k] = metric[p][k]
      /\ UNCHANGED posts
  BY EndTaskValues DEF GateInv
<1> HIDE DEF p
<1>3. Aside(w) /\ Guards(w)' /\ Opens(w)'
  BY <1>1, <1>2, FourResources DEF Aside, Guards, Opens, p
<1>4. /\ metric'[p]["conflict"] = metric[p]["conflict"]
      /\ metric'[p]["duration"] = metric[p]["duration"] + 1
      /\ metric'[p][s] = metric[p][s] + 1
      /\ \A k \in {"success", "error"} \ {s} : metric'[p][k] = metric[p][k]
  BY <1>2 DEF Counted
<1>5. \A k \in Counted : metric[p][k] \in Nat
  BY <1>1
<1>6. lock[p] = w
  BY <1>1 DEF Guards, p
<1>7. Counts(p)'
  <2>1. CASE s = "error"
    BY <1>1, <1>2, <1>4, <1>5, <1>6, <2>1 DEF Counts, Counted
  <2>2. CASE s = "success"
    BY <1>1, <1>2, <1>4, <1>5, <1>6, <2>2 DEF Counts, Counted, p
  <2> QED
    BY <2>1, <2>2
<1> QED
  BY <1>2, <1>3, <1>6, <1>7, OneTask DEF p

LEMMA StepClose ==
  ASSUME GateInv, NEW w \in Tasks, Close(w)
  PROVE  InStep'
<1> DEFINE p == ReplicaOf[w]
<1>1. /\ Guards(w) /\ Opens(w) /\ Counts(p) /\ w # None /\ p \in Replicas
      /\ open[w] \subseteq Resources /\ failing[w] \in BOOLEAN
  BY OfTask DEF GateInv, GateRest
<1>2. /\ task[w] \in Resources
      /\ UNCHANGED <<stage, lock, metric, posts>>
  BY DEF Close, vars, run
<1>3. \A v \in Tasks \ {w} : /\ task'[v] = task[v] /\ open'[v] = open[v]
                             /\ failing'[v] = failing[v]
  BY DEF Close, GateInv, GateRest
<1>4. \/ /\ open'[w] = open[w] \ Releases(task[w])
         /\ task'[w] = After(task[w]) /\ failing'[w] = failing[w]
      \/ task'[w] \in {"closed", "credential"} /\ failing'[w]
  BY DEF Close, GateInv, GateRest
<1>5. task'[w] \in Resources \cup {"closed"}
  BY <1>2, <1>4, FourResources, AfterValues
<1> HIDE DEF p
<1>6. Aside(w) /\ Guards(w)' /\ Counts(p)'
  BY <1>1, <1>2, <1>3, <1>5, FourResources DEF Aside, Guards, Counts, p
<1>7. Opens(w)'
  <2>1. CASE failing'[w]
    BY <2>1 DEF Opens
  <2>2. CASE /\ open'[w] = open[w] \ Releases(task[w])
             /\ task'[w] = After(task[w]) /\ failing'[w] = failing[w]
    <3>1. CASE task[w] = "embedder"
      BY <1>1, <2>2, <3>1, FourResources, AfterValues DEF Opens, Releases
    <3>2. CASE task[w] = "search_client"
      BY <1>1, <2>2, <3>2, FourResources, AfterValues DEF Opens, Releases
    <3>3. CASE task[w] = "search_index_client"
      BY <1>1, <2>2, <3>3, FourResources, AfterValues DEF Opens, Releases
    <3>4. CASE task[w] = "credential"
      BY <1>1, <2>2, <3>4, FourResources, AfterValues DEF Opens, Releases
    <3> QED
      BY <1>2, <3>1, <3>2, <3>3, <3>4, FourResources
  <2> QED
    BY <1>4, <2>1, <2>2
<1>8. lock[p] = w
  BY <1>1, <1>2, FourResources DEF Guards, p
<1> QED
  BY <1>2, <1>6, <1>7, <1>8, OneTask DEF p

LEMMA StepRun ==
  ASSUME GateInv, NEW w \in Tasks, Run(w)
  PROVE  InStep'
<1> DEFINE p == ReplicaOf[w]
<1>1. /\ Guards(w) /\ Opens(w) /\ Counts(p) /\ w # None /\ p \in Replicas
      /\ metric[p] \in [Counted -> Nat] /\ posts[p] \in Nat
      /\ w \in Writers
  BY OfTask
<1>2. /\ uploaded'[w] \in Nat
      /\ stage[w] # "idle"
      /\ stage'[w] = "idle" => outcome'[w] \in {"success", "error"}
      /\ \A v \in Tasks \ {w} : stage'[v] = stage[v]
  BY <1>1, TasksWrite, AdvanceRun DEF Run, GateInv
<1>3. task[w] = "running" /\ lock[p] = w
  BY <1>1 DEF Run, Guards
<1>4. CASE stage'[w] = "idle" /\ EndTask(w, "error")
  BY <1>2, <1>3, <1>4, StepEnd
<1>5. CASE /\ stage'[w] # "idle"
           /\ open' = [open EXCEPT ![w] = IF stage'[w] = "sweeping" THEN Resources ELSE @]
           /\ UNCHANGED <<lock, task, failing, metric, posts>>
  <2>1. \A v \in Tasks \ {w} : open'[v] = open[v]
    BY <1>1, <1>5 DEF GateInv, GateRest
  <2> HIDE DEF p
  <2>2. Aside(w) /\ Guards(w)' /\ Opens(w)' /\ Counts(p)'
    BY <1>1, <1>2, <1>3, <1>5, <2>1 DEF Aside, Guards, Opens, Counts, p
  <2> QED
    BY <1>3, <1>5, <2>2, OneTask DEF p
<1>6. CASE /\ stage'[w] = "idle"
           /\ task' = [task EXCEPT ![w] = "embedder"]
           /\ failing' = [failing EXCEPT ![w] = outcome'[w] = "error"]
           /\ Summary(w)
           /\ UNCHANGED <<lock, open, posts>>
  <2>1. /\ \A v \in Tasks \ {w} : task'[v] = task[v] /\ failing'[v] = failing[v]
        /\ task'[w] = "embedder" /\ failing'[w] = (outcome'[w] = "error")
    BY <1>1, <1>6 DEF GateInv, GateRest
  <2>2. {"chunks"} \in SUBSET Counted /\ GateRest
    BY DEF Counted, GateInv
  <2> HIDE DEF p
  <2>3. /\ \A q \in Replicas \ {p} : metric'[q] = metric[q]
        /\ \A k \in Counted \ {"chunks"} : metric'[p][k] = metric[p][k]
    <3>1. CASE outcome'[w] = "success"
      <4>1. Inc(p, {"chunks"}, uploaded'[w])
        BY <1>6, <3>1 DEF Summary, p
      <4> QED
        BY <1>1, <1>2, <2>2, <4>1, IncValues
    <3>2. CASE outcome'[w] # "success"
      BY <1>6, <3>2 DEF Summary
    <3> QED
      BY <3>1, <3>2
  <2>4. Aside(w) /\ Guards(w)' /\ Opens(w)'
    BY <1>1, <1>2, <1>3, <1>6, <2>1, <2>3 DEF Aside, Guards, Opens, p
  <2>5. Counts(p)'
    BY <1>1, <1>3, <1>6, <2>3 DEF Counts, Counted
  <2> QED
    BY <1>3, <1>6, <2>4, <2>5, OneTask DEF p
<1> QED
  BY <1>4, <1>5, <1>6 DEF Run

LEMMA StepBegin ==
  ASSUME GateInv, NEW w \in Tasks, Begin(w)
  PROVE  InStep'
<1> DEFINE p == ReplicaOf[w]
<1>1. /\ Guards(w) /\ Opens(w) /\ Counts(p) /\ w # None /\ p \in Replicas
      /\ metric[p] \in [Counted -> Nat] /\ w \in Writers
  BY OfTask
<1>2. task[w] = "scheduled" /\ stage[w] = "idle" /\ lock[p] = w
  BY <1>1 DEF Begin, Guards
<1>3. CASE EndTask(w, "error") /\ UNCHANGED vars
  BY <1>2, <1>3, StepEnd DEF vars, run
<1>4. CASE /\ Start(w)
           /\ task' = [task EXCEPT ![w] = "running"]
           /\ UNCHANGED <<lock, open, failing, metric, posts>>
  <2>1. /\ stage'[w] = "fetching"
        /\ \A v \in Tasks \ {w} : stage'[v] = stage[v]
    BY <1>1, <1>4, TasksWrite, StartRun DEF GateInv
  <2>2. task'[w] = "running" /\ \A v \in Tasks \ {w} : task'[v] = task[v]
    BY <1>4 DEF GateInv, GateRest
  <2> HIDE DEF p
  <2>3. Aside(w) /\ Guards(w)' /\ Opens(w)' /\ Counts(p)'
    BY <1>1, <1>2, <1>4, <2>1, <2>2 DEF Aside, Guards, Opens, Counts, p
  <2> QED
    BY <1>2, <1>4, <2>3, OneTask DEF p
<1> QED
  BY <1>3, <1>4 DEF Begin

LEMMA StepOpenFails ==
  ASSUME GateInv, NEW w \in Tasks, OpenFails(w)
  PROVE  InStep'
<1> DEFINE p == ReplicaOf[w]
<1>1. /\ Guards(w) /\ Counts(p) /\ w \in Writers /\ p \in Replicas
      /\ task[w] = "running" /\ Raise(w)
      /\ UNCHANGED <<lock, metric, posts>>
  BY OfTask DEF OpenFails
<1>2. /\ \A v \in Tasks \ {w} : /\ task'[v] = task[v] /\ open'[v] = open[v]
                                /\ failing'[v] = failing[v]
      /\ task'[w] = "credential" /\ failing'[w]
  BY DEF OpenFails, GateInv, GateRest
<1>3. /\ \A v \in Tasks \ {w} : stage'[v] = stage[v]
      /\ stage'[w] = "idle"
  BY <1>1, AdvanceRun, TasksWrite DEF Raise, End, Advance, GateInv, BaseInv, TypeOK
<1> HIDE DEF p
<1>4. Aside(w) /\ Guards(w)' /\ Opens(w)' /\ Counts(p)'
  BY <1>1, <1>2, <1>3 DEF Aside, Guards, Opens, Counts, p
<1>5. lock[p] = w
  BY <1>1 DEF Guards, p
<1> QED
  BY <1>1, <1>4, <1>5, OneTask DEF p

LEMMA StepFinish ==
  ASSUME GateInv, NEW w \in Tasks, Finish(w)
  PROVE  InStep'
<1>1. /\ task[w] = "closed" /\ stage[w] = "idle" /\ failing[w] \in BOOLEAN
      /\ UNCHANGED stage
      /\ EndTask(w, IF failing[w] THEN "error" ELSE "success")
  BY OfTask DEF Finish, Guards, vars, run, GateInv, GateRest
<1> QED
  BY <1>1, StepEnd

LEMMA StepConflict ==
  ASSUME GateInv, NEW p \in Replicas, Conflict(p)
  PROVE  InStep'
<1>1. /\ lock[p] # None /\ posts' = [posts EXCEPT ![p] = @ + 1]
      /\ UNCHANGED <<stage, lock, task, open, failing>>
      /\ Counts(p) /\ metric[p] \in [Counted -> Nat] /\ posts[p] \in Nat
  BY GateAssumption DEF Conflict, vars, run, GateInv, InStep, GateRest
<1>2. /\ \A q \in Replicas \ {p} : metric'[q] = metric[q] /\ posts'[q] = posts[q]
      /\ metric'[p]["conflict"] = metric[p]["conflict"] + 1
      /\ \A k \in Counted \ {"conflict"} : metric'[p][k] = metric[p][k]
      /\ posts'[p] = posts[p] + 1
  <2>1. GateRest /\ Inc(p, {"conflict"}, 1) /\ {"conflict"} \in SUBSET Counted /\ 1 \in Nat
    BY DEF Conflict, GateInv, Counted
  <2>2. /\ \A q \in Replicas \ {p} : metric'[q] = metric[q]
        /\ \A k \in {"conflict"} : metric'[p][k] = metric[p][k] + 1
        /\ \A k \in Counted \ {"conflict"} : metric'[p][k] = metric[p][k]
    BY <2>1, IncValues
  <2>3. /\ \A q \in Replicas \ {p} : posts'[q] = posts[q]
        /\ posts'[p] = posts[p] + 1
    BY <1>1, <2>1 DEF GateRest
  <2> QED
    BY <2>2, <2>3
<1>3. Counts(p)'
  BY <1>1, <1>2 DEF Counts, Counted
<1>4. ASSUME NEW q \in Replicas \ {p} PROVE Counts(q)'
  BY <1>1, <1>2 DEF Counts, GateInv, InStep
<1>5. ASSUME NEW w \in Tasks PROVE Guards(w)' /\ Opens(w)'
  <2>1. Guards(w) /\ Opens(w) /\ ReplicaOf[w] \in Replicas
    BY OfTask
  <2> QED
    BY <1>1, <2>1 DEF Guards, Opens
<1> QED
  BY <1>3, <1>4, <1>5 DEF InStep

LEMMA StepKill ==
  ASSUME GateInv, NEW p \in Replicas, KillReplica(p)
  PROVE  InStep'
<1> DEFINE mine == {w \in Tasks : ReplicaOf[w] = p}
<1>1. /\ task' = [w \in Tasks |-> IF w \in mine THEN "none" ELSE task[w]]
      /\ open' = [w \in Tasks |-> IF w \in mine THEN {} ELSE open[w]]
      /\ failing' = [w \in Tasks |-> failing[w] /\ w \notin mine]
      /\ lock' = [lock EXCEPT ![p] = None]
      /\ metric' = [metric EXCEPT ![p] = [k \in Counted |-> 0]]
      /\ posts' = [posts EXCEPT ![p] = 0]
  BY DEF KillReplica
<1>2. /\ \A w \in mine : stage'[w] = "idle"
      /\ \A w \in Tasks \ mine : stage'[w] = stage[w]
  <2>1. CASE \E w \in mine : {u \in mine : stage[u] # "idle"} = {w} /\ Kill(w)
    <3>1. PICK w \in mine : {u \in mine : stage[u] # "idle"} = {w} /\ Kill(w)
      BY <2>1
    <3>2. /\ stage'[w] = "idle" /\ w \in Writers
          /\ \A u \in Writers \ {w} : stage'[u] = stage[u]
      BY <3>1, TasksWrite, KillRun DEF GateInv
    <3> QED
      BY <3>1, <3>2, TasksWrite
  <2>2. CASE {u \in mine : stage[u] # "idle"} = {} /\ UNCHANGED vars
    BY <2>2 DEF vars, run
  <2> QED
    BY <2>1, <2>2 DEF KillReplica
<1>3. Counts(p)'
  <2>1. /\ lock'[p] = None /\ posts'[p] = 0
        /\ \A k \in Counted : metric'[p][k] = 0
    BY <1>1 DEF GateInv, GateRest
  <2> QED
    BY <2>1 DEF Counts, Counted
<1>4. ASSUME NEW q \in Replicas \ {p} PROVE Counts(q)'
  BY <1>1 DEF Counts, GateInv, GateRest, InStep
<1>5. ASSUME NEW w \in Tasks PROVE Guards(w)' /\ Opens(w)'
  <2>1. Guards(w) /\ Opens(w) /\ ReplicaOf[w] \in Replicas /\ w # None
    BY OfTask
  <2>2. CASE ReplicaOf[w] = p
    <3>1. /\ lock'[ReplicaOf[w]] = None /\ task'[w] = "none" /\ stage'[w] = "idle"
      BY <1>1, <1>2, <2>1, <2>2 DEF GateInv, GateRest
    <3> QED
      BY <2>1, <3>1 DEF Guards, Opens
  <2>3. CASE ReplicaOf[w] # p
    <3>1. /\ task'[w] = task[w] /\ open'[w] = open[w] /\ failing'[w] = failing[w]
          /\ stage'[w] = stage[w]
      BY <1>1, <1>2, <2>3 DEF GateInv, GateRest
    <3>2. lock'[ReplicaOf[w]] = lock[ReplicaOf[w]]
      BY <1>1, <2>1, <2>3 DEF GateInv, GateRest
    <3> QED
      BY <2>1, <3>1, <3>2 DEF Guards, Opens
  <2> QED
    BY <2>2, <2>3
<1> QED
  BY <1>3, <1>4, <1>5 DEF InStep

\* An operator's run and the author of a page touch nothing of the gate.
LEMMA StepBeside ==
  ASSUME GateInv, (\E w \in Cli : Operator(w)) \/ Author \/ UNCHANGED gateVars
  PROVE  InStep'
<1>1. UNCHANGED <<lock, task, open, failing, metric, posts>>
  BY DEF Operator, Author, gateVars, gate
<1>2. \A v \in Tasks : stage'[v] = stage[v]
  <2>1. ASSUME NEW w \in Cli, Operator(w)
        PROVE  \A v \in Tasks : stage'[v] = stage[v]
    <3>1. /\ w \in Writers /\ \A v \in Tasks : v \in Writers \ {w}
          /\ Start(w) \/ Advance(w) \/ Kill(w)
      BY <2>1, WritersAssumption DEF Tasks, Operator
    <3> QED
      BY <3>1, RunStep DEF GateInv, Same4
  <2>2. CASE Author \/ UNCHANGED gateVars
    BY <2>2, EditType DEF Author, gateVars, vars, run, GateInv, BaseInv
  <2> QED
    BY <2>1, <2>2
<1> QED
  BY <1>1, <1>2 DEF GateInv, InStep, Guards, Opens, Counts

LEMMA StepGate == GateInv /\ [GateNext]_gateVars => GateInv'
<1> SUFFICES ASSUME GateInv, [GateNext]_gateVars PROVE GateInv'
  OBVIOUS
<1>1. BaseInv'
  BY PipelineStep, StepBase DEF GateInv
<1>2. GateRest'
  BY StepRest DEF GateInv
<1>3. InStep'
  BY StepAccept, StepBegin, StepRun, StepOpenFails, StepClose, StepFinish, StepConflict, StepKill, StepBeside
     DEF GateNext, TaskStep
<1> QED
  BY <1>1, <1>2, <1>3 DEF GateInv

LEMMA InitGate == GateInit => GateInv
<1> SUFFICES ASSUME GateInit PROVE GateInv
  OBVIOUS
<1>1. BaseInv /\ \A w \in Writers : stage[w] = "idle"
  BY InitBase DEF GateInit, Init
<1>2. GateRest
  BY GateAssumption DEF GateInit, GateRest
<1>3. \A w \in Tasks : Guards(w) /\ Opens(w)
  BY <1>1, TasksWrite DEF GateInit, Guards, Opens
<1>4. \A p \in Replicas : Counts(p)
  BY DEF GateInit, Counts, Counted
<1> QED
  BY <1>1, <1>2, <1>3, <1>4 DEF GateInv, InStep

-----------------------------------------------------------------------------
(* The theorems                                                            *)

(* The lock, the task, the run inside it, the clients it has opened and    *)
(* the counters are in step, whoever calls, whatever raises or is killed.  *)
THEOREM InStepAlways == GateSpec => []GateInv
BY InitGate, StepGate, PTL DEF GateSpec

(* Every variable of the gate keeps its type for any number of requests.   *)
THEOREM GateTypeCorrect == GateSpec => []GateTypeOK
<1>1. GateInv => GateTypeOK
  BY DEF GateInv, GateRest, BaseInv, GateTypeOK
<1> QED
  BY <1>1, InStepAlways, PTL

(* No replica ever has two tasks, and none has a lock without its task.    *)
THEOREM LockHolds == GateSpec => []LockGuardsTask
<1>1. GateInv => LockGuardsTask
  BY DEF GateInv, InStep, Guards, LockGuardsTask
<1> QED
  BY <1>1, InStepAlways, PTL

(* Every request is counted as what became of it, once.                    *)
THEOREM RunsCounted == GateSpec => []RunsBalance
<1>1. GateInv => RunsBalance
  BY DEF GateInv, InStep, Counts, RunsBalance
<1> QED
  BY <1>1, InStepAlways, PTL

\* Only the end of a task that has met no exception counts a success.
LEMMA SuccessStep ==
  ASSUME GateInv, [GateNext]_gateVars, NEW w \in Tasks,
         metric'[ReplicaOf[w]]["success"] > metric[ReplicaOf[w]]["success"],
         lock[ReplicaOf[w]] = w
  PROVE  open[w] = {}
<1> DEFINE p == ReplicaOf[w]
<1> DEFINE Uncounted == metric'[p]["success"] = metric[p]["success"]
<1>1. /\ p \in Replicas /\ metric[p] \in [Counted -> Nat] /\ "success" \in Counted
      /\ GateRest /\ metric[p]["success"] \in Nat
  BY OfTask DEF Counted, GateInv
<1>2. ~Uncounted
  BY <1>1
<1>3. ASSUME NEW v \in Tasks, NEW s \in {"success", "error"}, EndTask(v, s),
             task[v] # "none"
      PROVE  s = "success" /\ v = w
  <2>1. v = w
    <3>1. ReplicaOf[v] = p
      BY <1>1, <1>2, <1>3, EndTaskValues
    <3>2. lock[ReplicaOf[v]] = v
      BY <1>3, OfTask DEF Guards
    <3> QED
      BY <3>1, <3>2
  <2>2. s = "success"
    BY <1>1, <1>2, <1>3, <2>1, EndTaskValues DEF Counted
  <2> QED
    BY <2>1, <2>2
<1>4. ASSUME NEW v \in Tasks, Begin(v) PROVE Uncounted
  BY <1>3, <1>4 DEF Begin
<1>5. ASSUME NEW v \in Tasks, Run(v) PROVE Uncounted
  <2>1. CASE EndTask(v, "error")
    BY <1>3, <1>5, <2>1 DEF Run
  <2>2. CASE Summary(v)
    <3>1. CASE Inc(ReplicaOf[v], {"chunks"}, uploaded'[v])
      <4>1. uploaded'[v] \in Nat /\ ReplicaOf[v] \in Replicas
        BY <1>5, TasksWrite, AdvanceRun DEF Run, GateInv
      <4>2. {"chunks"} \in SUBSET Counted /\ "success" \in Counted \ {"chunks"}
        BY DEF Counted
      <4> HIDE DEF p
      <4> QED
        BY <1>1, <3>1, <4>1, <4>2, IncValues
    <3> QED
      BY <2>2, <3>1 DEF Summary
  <2>3. CASE UNCHANGED metric
    BY <2>3
  <2> QED
    BY <1>5, <2>1, <2>2, <2>3 DEF Run
<1>6. ASSUME NEW v \in Tasks, Finish(v) PROVE v = w /\ ~failing[v] /\ task[v] = "closed"
  BY <1>3, <1>6 DEF Finish
<1>7. ASSUME NEW q \in Replicas, Conflict(q) PROVE Uncounted
  <2>1. {"conflict"} \in SUBSET Counted /\ "success" \in Counted \ {"conflict"}
    BY DEF Counted
  <2> HIDE DEF p
  <2> QED
    BY <1>1, <1>7, <2>1, IncValues DEF Conflict
<1>8. ASSUME NEW q \in Replicas, KillReplica(q) PROVE FALSE
  <2>1. metric' = [metric EXCEPT ![q] = [k \in Counted |-> 0]]
    BY <1>8 DEF KillReplica
  <2>2. metric'[p]["success"] \in {0, metric[p]["success"]}
    BY <1>1, <2>1 DEF GateRest
  <2> QED
    BY <1>1, <2>2
<1>9. ASSUME \/ \E v \in Tasks : Accept(v) \/ OpenFails(v) \/ Close(v)
             \/ \E v \in Cli : Operator(v)
             \/ Author \/ UNCHANGED gateVars
      PROVE  Uncounted
  BY <1>9 DEF Accept, OpenFails, Close, Operator, Author, gateVars, gate
<1>10. \E v \in Tasks : Finish(v)
  BY <1>2, <1>4, <1>5, <1>7, <1>8, <1>9 DEF GateNext, TaskStep
<1> QED
  BY <1>6, <1>10, OfTask DEF Opens

(* A run that counts as a success has closed all that it opened.           *)
THEOREM SuccessReleased == GateSpec => SuccessMeansReleased
<1>1. GateInv /\ [GateNext]_gateVars =>
        [ \A w \in Tasks :
            metric'[ReplicaOf[w]]["success"] > metric[ReplicaOf[w]]["success"]
              /\ lock[ReplicaOf[w]] = w => open[w] = {} ]_gateVars
  BY SuccessStep
<1> QED
  BY <1>1, InStepAlways, PTL DEF GateSpec, SuccessMeansReleased

(* What CorpusIndex proves of clean runs holds behind the gate, for every  *)
(* number of replicas and operators at once.                               *)
THEOREM GateCleanRuns ==
  ASSUME HashesDistinct
  PROVE  GateSpec => CleanRunUpToDate
<1>1. Spec => CleanRunUpToDate
  BY CleanRuns
<1> QED
  BY <1>1, GateUsesPipeline

=============================================================================
