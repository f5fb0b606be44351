----------------------------- MODULE IngestGate -----------------------------
(***************************************************************************)
(* POST /ingest (api/routes.py) around the pipeline of CorpusIndex: the    *)
(* handler takes the lock of its replica and answers 202 or, if the lock   *)
(* is taken, 409; the background task it leaves behind runs the pipeline   *)
(* after the response, counts how the run ended and gives the lock back.   *)
(*                                                                         *)
(*   Accept --> Begin --> Run, step by step --> Close --> (lock free)      *)
(*                                                                         *)
(* The task opens a credential and three clients for the index and closes  *)
(* them at the end, in an order and with the exceptions of the code.       *)
(* A replica that is killed loses its task, its lock and its counters.     *)
(* Other replicas, and `make ingest` of an operator, write to the same     *)
(* index and know nothing of the lock.                                     *)
(***************************************************************************)
EXTENDS CorpusIndex

CONSTANTS
  Replicas,
  ReplicaOf,  \* the replica that a background task belongs to
  MaxPosts    \* bound on the requests that one process answers

Tasks == Writers \ Cli
Counted == {"success", "error", "conflict", "duration", "chunks"}

\* What a task opens for index_all, in the order in which it is closed.
Closables == <<"embedder", "search_client", "search_index_client", "credential">>
Resources == {Closables[k] : k \in DOMAIN Closables}

ASSUME GateAssumption ==
  /\ ReplicaOf \in [Tasks -> Replicas]
  /\ MaxPosts \in Nat
  /\ None \notin Writers

VARIABLES
  lock,    \* _ingest_lock: the task it was acquired for, or None
  task,    \* where the background task is; at last, what it is closing
  open,    \* what a running task has opened and not closed
  failing, \* an exception is on its way through the task
  metric,  \* the ingest counters of each process
  posts    \* history: requests with an admin token that a process answered

gate == <<lock, task, open, failing, metric, posts>>
gateVars == <<vars, gate>>

GateTypeOK ==
  /\ TypeOK
  /\ lock \in [Replicas -> Tasks \cup {None}]
  /\ task \in [Tasks -> {"none", "scheduled", "running", "closed"} \cup Resources]
  /\ open \in [Tasks -> SUBSET Resources]
  /\ failing \in [Tasks -> BOOLEAN]
  /\ metric \in [Replicas -> [Counted -> Nat]]
  /\ posts \in [Replicas -> 0 .. MaxPosts]

-----------------------------------------------------------------------------

\* The counters in C of process p go up, by n.
Inc(p, C, n) ==
  metric' = [metric EXCEPT ![p] = [k \in Counted |-> @[k] + IF k \in C THEN n ELSE 0]]

\* Mutant: the lock is not released when the run has failed.
EndTaskKeepsLock(w, s) ==
  /\ task' = [task EXCEPT ![w] = "none"]
  /\ open' = [open EXCEPT ![w] = {}]
  /\ failing' = [failing EXCEPT ![w] = FALSE]
  /\ Inc(ReplicaOf[w], {s, "duration"}, 1)
  /\ lock' = IF s = "error" THEN lock ELSE [lock EXCEPT ![ReplicaOf[w]] = None]
  /\ UNCHANGED posts

\* The except and finally blocks of _run_ingest_pipeline.
EndTask(w, s) ==
  /\ task' = [task EXCEPT ![w] = "none"]
  /\ open' = [open EXCEPT ![w] = {}]
  /\ failing' = [failing EXCEPT ![w] = FALSE]
  /\ Inc(ReplicaOf[w], {s, "duration"}, 1)
  /\ lock' = [lock EXCEPT ![ReplicaOf[w]] = None]
  /\ UNCHANGED posts

\* The handler finds the lock taken: 409.
Conflict(p) ==
  /\ posts[p] < MaxPosts
  /\ lock[p] # None
  /\ posts' = [posts EXCEPT ![p] = @ + 1]
  /\ Inc(p, {"conflict"}, 1)
  /\ UNCHANGED <<vars, lock, task, open, failing>>

\* Mutant: nobody asks whether the lock is taken.
AcceptAlways(w) ==
  LET p == ReplicaOf[w] IN
  /\ posts[p] < MaxPosts
  /\ task[w] = "none"
  /\ lock' = [lock EXCEPT ![p] = w]
  /\ task' = [task EXCEPT ![w] = "scheduled"]
  /\ posts' = [posts EXCEPT ![p] = @ + 1]
  /\ UNCHANGED <<vars, open, failing, metric>>

\* The handler finds the lock free, takes it with no await in between, and
\* schedules w: 202.
Accept(w) ==
  LET p == ReplicaOf[w] IN
  /\ posts[p] < MaxPosts
  /\ lock[p] = None
  /\ task[w] = "none"
  /\ lock' = [lock EXCEPT ![p] = w]
  /\ task' = [task EXCEPT ![w] = "scheduled"]
  /\ posts' = [posts EXCEPT ![p] = @ + 1]
  /\ UNCHANGED <<vars, open, failing, metric>>

\* The response is out and the task starts, or fails before it can.
Begin(w) ==
  /\ task[w] = "scheduled"
  /\ \/ /\ Start(w)
        /\ task' = [task EXCEPT ![w] = "running"]
        /\ UNCHANGED <<lock, open, failing, metric, posts>>
     \/ EndTask(w, "error") /\ UNCHANGED vars

\* The summary of index_all, if there is one, goes into the chunk counter.
Summary(w) ==
  IF outcome'[w] = "success"
  THEN Inc(ReplicaOf[w], {"chunks"}, uploaded'[w])
  ELSE UNCHANGED metric

(* The pipeline takes a step.  Between chunk_all and index_all the task    *)
(* opens the credential and the clients; an exception before that ends the *)
(* task at once, later the task has them to close.                         *)
Run(w) ==
  /\ task[w] = "running"
  /\ Advance(w)
  /\ \/ /\ stage'[w] # "idle"
        /\ open' = [open EXCEPT ![w] = IF stage'[w] = "sweeping" THEN Resources ELSE @]
        /\ UNCHANGED <<lock, task, failing, metric, posts>>
     \/ /\ stage'[w] = "idle" /\ stage[w] # "fetching"
        /\ task' = [task EXCEPT ![w] = "embedder"]
        /\ failing' = [failing EXCEPT ![w] = outcome'[w] = "error"]
        /\ Summary(w)
        /\ UNCHANGED <<lock, open, posts>>
     \/ /\ stage'[w] = "idle" /\ stage[w] = "fetching"
        /\ EndTask(w, "error")

\* What is open when a constructor raises: the clients that were built before.
Built == {{}, {"embedder"}, {"embedder", "search_index_client"}}

(* The chunks are there and the credential is open, but a client cannot be *)
(* built.  Those before it are left open: only the credential is closed.   *)
OpenFails(w) ==
  /\ task[w] = "running" /\ stage[w] = "fetching"
  /\ \A s \in Sources : want[w][s] # Todo
  /\ Raise(w)
  /\ \E B \in Built : open' = [open EXCEPT ![w] = B \cup {"credential"}]
  /\ task' = [task EXCEPT ![w] = "credential"]
  /\ failing' = [failing EXCEPT ![w] = TRUE]
  /\ UNCHANGED <<lock, metric, posts>>

\* What a close releases, and what of it if it raises.  The embedder takes
\* the credential it was given for its own and closes it as well, last.
Releases(r) == IF r = "embedder" THEN {r, "credential"} ELSE {r}
Partly(r) == IF r = "embedder" THEN {{}, {r}} ELSE {{}}

\* What comes after the close of r.
After(r) ==
  LET k == CHOOSE n \in DOMAIN Closables : Closables[n] = r IN
  IF k = Len(Closables) THEN "closed" ELSE Closables[k + 1]

\* Mutant: a close that raises is passed over.
CloseSwallows(w) ==
  /\ task[w] \in Resources
  /\ \E A \in Partly(task[w]) \cup {Releases(task[w])} : open' = [open EXCEPT ![w] = @ \ A]
  /\ task' = [task EXCEPT ![w] = After(@)]
  /\ UNCHANGED <<vars, lock, failing, metric, posts>>

(* One of them is closed, in the order of the finally blocks; a close that *)
(* raises, with none or part of it released, goes straight to the          *)
(* credential and makes an error of a run that had succeeded.              *)
Close(w) ==
  /\ task[w] \in Resources
  /\ \/ /\ open' = [open EXCEPT ![w] = @ \ Releases(task[w])]
        /\ task' = [task EXCEPT ![w] = After(@)]
        /\ UNCHANGED failing
     \/ /\ \E A \in Partly(task[w]) : open' = [open EXCEPT ![w] = @ \ A]
        /\ task' = [task EXCEPT ![w] = IF @ = "credential" THEN "closed" ELSE "credential"]
        /\ failing' = [failing EXCEPT ![w] = TRUE]
  /\ UNCHANGED <<vars, lock, metric, posts>>

\* What is left of the task once everything was closed or has raised.
Finish(w) ==
  /\ task[w] = "closed"
  /\ EndTask(w, IF failing[w] THEN "error" ELSE "success")
  /\ UNCHANGED vars

\* The platform kills a replica, at rest or in the middle of a run.
KillReplica(p) ==
  /\ LET mine == {w \in Tasks : ReplicaOf[w] = p}
         busy == {w \in mine : stage[w] # "idle"} IN
       /\ \/ \E w \in mine : busy = {w} /\ Kill(w)
          \/ busy = {} /\ UNCHANGED vars
       /\ task' = [w \in Tasks |-> IF w \in mine THEN "none" ELSE task[w]]
       /\ open' = [w \in Tasks |-> IF w \in mine THEN {} ELSE open[w]]
       /\ failing' = [w \in Tasks |-> failing[w] /\ w \notin mine]
  /\ lock' = [lock EXCEPT ![p] = None]
  /\ metric' = [metric EXCEPT ![p] = [k \in Counted |-> 0]]
  /\ posts' = [posts EXCEPT ![p] = 0]

\* make ingest, which has no lock to take.
Operator(w) == (Start(w) \/ Advance(w) \/ Kill(w)) /\ UNCHANGED gate

Author == Edit /\ UNCHANGED gate

-----------------------------------------------------------------------------

GateInit ==
  /\ Init
  /\ lock = [p \in Replicas |-> None]
  /\ task = [w \in Tasks |-> "none"]
  /\ open = [w \in Tasks |-> {}]
  /\ failing = [w \in Tasks |-> FALSE]
  /\ metric = [p \in Replicas |-> [k \in Counted |-> 0]]
  /\ posts = [p \in Replicas |-> 0]

TaskStep(w) == Begin(w) \/ Run(w) \/ OpenFails(w) \/ Close(w) \/ Finish(w)

GateNext ==
  \/ \E w \in Tasks : Accept(w) \/ TaskStep(w)
  \/ \E p \in Replicas : Conflict(p) \/ KillReplica(p)
  \/ \E w \in Cli : Operator(w)
  \/ Author

GateSpec == GateInit /\ [][GateNext]_gateVars

(* Starlette runs the background task once the response is out, and every  *)
(* await of the pipeline has a timeout in its SDK.  Nobody has to call,    *)
(* to edit, or to kill.                                                    *)
GateFairSpec == GateSpec /\ \A w \in Tasks : WF_gateVars(TaskStep(w))

-----------------------------------------------------------------------------
(* Properties                                                              *)

(* The lock outlives the response and is held exactly while its task is    *)
(* scheduled, runs or closes its clients, so that a replica has one task   *)
(* at most, and the pipeline only runs inside one (routes.py:193-198).     *)
LockGuardsTask ==
  \A w \in Tasks :
    /\ task[w] # "none" <=> lock[ReplicaOf[w]] = w
    /\ stage[w] # "idle" <=> task[w] = "running"

(* Every request that an admin made is a conflict, a run that was counted  *)
(* once with its duration, or the run under way (metrics.py:66-78).        *)
RunsBalance ==
  \A p \in Replicas :
    /\ posts[p] = metric[p]["conflict"] + metric[p]["success"] + metric[p]["error"]
                  + IF lock[p] = None THEN 0 ELSE 1
    /\ metric[p]["duration"] = metric[p]["success"] + metric[p]["error"]

(* A run is only counted as a success if every client and the credential   *)
(* that it opened are closed: whatever raises in between, where one is     *)
(* built or closed as well, shows as an error (routes.py:233-272).         *)
SuccessMeansReleased ==
  [][ \A w \in Tasks :
        metric'[ReplicaOf[w]]["success"] > metric[ReplicaOf[w]]["success"]
          /\ lock[ReplicaOf[w]] = w => open[w] = {} ]_gateVars

(* A run that was accepted ends or dies with its replica, and the next     *)
(* request finds the lock free.                                            *)
LockComesBack ==
  \A p \in Replicas : \A w \in Tasks : lock[p] = w ~> lock[p] = None

=============================================================================
