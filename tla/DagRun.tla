-------------------------------- MODULE DagRun --------------------------------
(***************************************************************************)
(* A workflow run: the request that sorts the template's nodes into layers *)
(* and creates the task and its WorkflowRun (endpoints/workflows.py), the  *)
(* DAG engine that executes layer after layer (services/dag_engine.py),    *)
(* and all that settles the two rows when the engine does not: the sweeps  *)
(* of services/task_lease.py, a cancel, and the two ways in which a task   *)
(* is put back to PENDING and executed as an ordinary one.                 *)
(*                                                                         *)
(* Task and run are committed one after the other wherever both change,    *)
(* except by the lease sweep.  Approval nodes are in Approval.tla; here a  *)
(* node completes or fails.  Node ids are distinct (a template in which    *)
(* they are not is refused before it is sorted), and a dependency that a   *)
(* node lists twice counts twice in its degree and is taken off twice.     *)
(***************************************************************************)
EXTENDS Integers, FiniteSets

CONSTANTS
    Nodes,
    Unknown,    \* an id that is not a node's
    Templates,  \* the dependencies of each node, for each template
    MaxFaults   \* bound: crashes of processes and deaths of the renewer

ASSUME DagAssumption ==
    /\ IsFiniteSet(Nodes) /\ Nodes # {}
    /\ Unknown \notin Nodes
    /\ Templates \subseteq [Nodes -> SUBSET (Nodes \cup {Unknown})]
    /\ MaxFaults \in Nat

VARIABLES
    deps,      \* the template's dependencies
    sort,      \* how far topological_sort is
    indegree,  \* its counters
    current,   \* its current layer
    layers,    \* the number of layers so far
    layer,     \* the layer of each node, 0 if it has none
    engine,    \* where the request, and then run_workflow_dag, stands
    at,        \* the layer that execute_dag is at
    node,      \* where the coroutine of each node stands
    step,      \* the node's task_steps row
    task,      \* Task.status, or "absent"
    token,     \* Task.execution_token: the engine's, an ordinary executor's
    lease,     \* Task.execution_token_expires_at: none, ahead or passed
    renewing,  \* the token that the engine's renewer extends
    plain,     \* has the task been executed as an ordinary one?
    run,       \* WorkflowRun.status, or "absent"
    seen,      \* the run's status as the engine's last session loaded it
    sweep,     \* what a sweep has decided to write
    cancel,    \* what a cancel request has decided to write
    faults

sorting == <<deps, sort, indegree, current, layers, layer>>
nodes   == <<at, node, step>>
row     == <<task, token, lease>>
others  == <<plain, sweep, cancel>>
vars    == <<sorting, engine, nodes, row, renewing, run, seen, others, faults>>

TaskStatus == {"pending", "running", "completed", "failed", "cancelled"}
Terminal   == {"completed", "failed", "cancelled"}
RunStatus  == {"absent", "running", "completed", "failed"}
Tokens     == {"none", "engine", "plain"}

Engine == {"sorting", "create", "create_run", "scheduled", "going",
           "complete", "complete_run", "fail", "fail_run", "done", "gone"}
Alive  == Engine \ {"sorting", "done", "gone"}

TypeOK ==
    /\ deps \in Templates
    /\ sort \in {"open", "refused", "sorted"}
    /\ indegree \in [Nodes -> Int]
    /\ current \subseteq Nodes
    /\ layers \in Nat
    /\ layer \in [Nodes -> Nat]
    /\ engine \in Engine
    /\ at \in Nat
    /\ node \in [Nodes -> {"idle", "working", "erred", "ok", "raised"}]
    /\ step \in [Nodes -> {"none", "completed", "failed", "pending"}]
    /\ task \in TaskStatus \cup {"absent"}
    /\ token \in Tokens /\ renewing \in Tokens
    /\ lease \in {"none", "valid", "expired"}
    /\ token = "none" <=> lease = "none"
    /\ run \in RunStatus /\ seen \in RunStatus
    /\ sweep \in {"idle", "expired", "completed", "failed"}
    /\ plain \in {"never", "working", "ended"} /\ cancel \in {"idle", "decided"}
    /\ faults \in 0..MaxFaults

Init ==
    /\ deps \in Templates
    /\ sort = "open"
    /\ indegree = [n \in Nodes |-> Cardinality(deps[n])]
    /\ current = {n \in Nodes : deps[n] = {}}
    /\ layers = 0 /\ layer = [n \in Nodes |-> 0]
    /\ engine = "sorting" /\ at = 0
    /\ node = [n \in Nodes |-> "idle"] /\ step = [n \in Nodes |-> "none"]
    /\ task = "absent" /\ token = "none" /\ lease = "none" /\ renewing = "none"
    /\ plain = "never"
    /\ run = "absent" /\ seen = "absent"
    /\ sweep = "idle" /\ cancel = "idle"
    /\ faults = 0

-----------------------------------------------------------------------------
(* topological_sort                                                        *)

\* 422: a dependency that no node has, or nodes that no layer takes.
Refuse ==
    /\ sort = "open"
    /\ \/ \E n \in Nodes : Unknown \in deps[n]
       \/ current = {} /\ \E n \in Nodes : layer[n] = 0
    /\ sort' = "refused" /\ engine' = "done"
    /\ UNCHANGED <<deps, indegree, current, layers, layer, nodes, row, renewing,
                   run, seen, others, faults>>

\* Mutant: the counter is looked at before it is decremented.
PlaceLayerStale ==
    /\ sort = "open" /\ \A n \in Nodes : Unknown \notin deps[n]
    /\ current # {}
    /\ layers' = layers + 1
    /\ layer' = [n \in Nodes |-> IF n \in current THEN layers + 1 ELSE layer[n]]
    /\ indegree' = [n \in Nodes |->
                        indegree[n] - Cardinality(deps[n] \cap current)]
    /\ current' = {n \in Nodes : deps[n] \cap current # {} /\ indegree[n] = 0}
    /\ UNCHANGED <<deps, sort, engine, nodes, row, renewing, run, seen, others,
                   faults>>

\* The current nodes become a layer, and the dependents whose counter reaches
\* zero the next one.
PlaceLayer ==
    /\ sort = "open" /\ \A n \in Nodes : Unknown \notin deps[n]
    /\ current # {}
    /\ layers' = layers + 1
    /\ layer' = [n \in Nodes |-> IF n \in current THEN layers + 1 ELSE layer[n]]
    /\ indegree' = [n \in Nodes |->
                        indegree[n] - Cardinality(deps[n] \cap current)]
    /\ current' = {n \in Nodes : deps[n] \cap current # {} /\ indegree'[n] = 0}
    /\ UNCHANGED <<deps, sort, engine, nodes, row, renewing, run, seen, others,
                   faults>>

Accept ==
    /\ sort = "open" /\ current = {}
    /\ \A n \in Nodes : layer[n] # 0
    /\ sort' = "sorted" /\ engine' = "create"
    /\ UNCHANGED <<deps, indegree, current, layers, layer, nodes, row, renewing,
                   run, seen, others, faults>>

-----------------------------------------------------------------------------
(* run_workflow_template                                                   *)

CreateTask ==
    /\ engine = "create" /\ engine' = "create_run"
    /\ task' = "pending"
    /\ UNCHANGED <<sorting, nodes, token, lease, renewing, run, seen, others,
                   faults>>

CreateRun ==
    /\ engine = "create_run" /\ engine' = "scheduled"
    /\ run' = "running"
    /\ UNCHANGED <<sorting, nodes, row, renewing, seen, others, faults>>

-----------------------------------------------------------------------------
(* run_workflow_dag, execute_dag and _run_node                             *)

\* Layer k starts: all of its nodes at once.
StartLayer(k) ==
    /\ at' = k
    /\ node' = [n \in Nodes |-> IF layer[n] = k THEN "working" ELSE node[n]]
    /\ UNCHANGED step

\* A PENDING task is claimed; any other one is executed all the same, and the
\* renewer extends the token it finds there.
Begin ==
    /\ engine = "scheduled" /\ engine' = "going"
    /\ IF task = "pending"
         THEN /\ task' = "running" /\ token' = "engine" /\ lease' = "valid"
              /\ renewing' = "engine"
         ELSE UNCHANGED row /\ renewing' = token
    /\ StartLayer(1)
    /\ UNCHANGED <<sorting, run, seen, others, faults>>

\* The claim is refused, as somebody else has made it, or the session breaks.
ClaimRefused ==
    /\ engine = "scheduled" /\ engine' = "fail"
    /\ UNCHANGED <<sorting, nodes, row, renewing, run, seen, others, faults>>

\* The node's coroutine returns its output, behind its committed step, ...
NodeSucceeds(n) ==
    /\ engine = "going" /\ node[n] = "working"
    /\ node' = [node EXCEPT ![n] = "ok"]
    /\ step' = [step EXCEPT ![n] = "completed"]
    /\ UNCHANGED <<sorting, engine, at, row, renewing, run, seen, others, faults>>

\* ... or its executor fails, and a failed step is written if that works, ...
NodeErrs(n) ==
    /\ engine = "going" /\ node[n] = "working"
    /\ node' = [node EXCEPT ![n] = "erred"]
    /\ UNCHANGED <<sorting, engine, at, step, row, renewing, run, seen, others,
                   faults>>

RecordFailure(n) ==
    /\ engine = "going" /\ node[n] = "erred"
    /\ node' = [node EXCEPT ![n] = "raised"]
    /\ \/ step' = [step EXCEPT ![n] = "failed"]
       \/ UNCHANGED step
    /\ UNCHANGED <<sorting, engine, at, row, renewing, run, seen, others, faults>>

\* ... or the database does, before or after the step is there.
NodeRaises(n) ==
    /\ engine = "going" /\ node[n] = "working"
    /\ node' = [node EXCEPT ![n] = "raised"]
    /\ \/ step' = [step EXCEPT ![n] = "completed"]
       \/ UNCHANGED step
    /\ UNCHANGED <<sorting, engine, at, row, renewing, run, seen, others, faults>>

\* gather waits for every node of the layer.
Ended(k) == \A n \in Nodes : layer[n] = k => node[n] \in {"ok", "raised"}
Went(k)  == \A n \in Nodes : layer[n] = k => node[n] = "ok"

\* Mutant: the first node to return takes the engine on.
NextLayerEarly ==
    /\ engine = "going"
    /\ \E n \in Nodes : layer[n] = at /\ node[n] = "ok"
    /\ IF at < layers
         THEN StartLayer(at + 1) /\ UNCHANGED engine
         ELSE engine' = "complete" /\ UNCHANGED nodes
    /\ UNCHANGED <<sorting, row, renewing, run, seen, others, faults>>

\* Mutant: gather swallows the exceptions it was told to return.
NextLayerAnyway ==
    /\ engine = "going" /\ Ended(at)
    /\ IF at < layers
         THEN StartLayer(at + 1) /\ UNCHANGED engine
         ELSE engine' = "complete" /\ UNCHANGED nodes
    /\ UNCHANGED <<sorting, row, renewing, run, seen, others, faults>>

NextLayer ==
    /\ engine = "going" /\ Went(at)
    /\ IF at < layers
         THEN StartLayer(at + 1) /\ UNCHANGED engine
         ELSE engine' = "complete" /\ UNCHANGED nodes
    /\ UNCHANGED <<sorting, row, renewing, run, seen, others, faults>>

LayerFailed ==
    /\ engine = "going" /\ Ended(at) /\ ~Went(at)
    /\ engine' = "fail"
    /\ UNCHANGED <<sorting, nodes, row, renewing, run, seen, others, faults>>

\* Two rows are loaded, the task is committed, then the run.
CompleteTask ==
    /\ engine = "complete" /\ engine' = "complete_run"
    /\ task' = "completed" /\ token' = "none" /\ lease' = "none"
    /\ seen' = run
    /\ UNCHANGED <<sorting, nodes, renewing, run, others, faults>>

CompleteRun ==
    /\ engine = "complete_run" /\ engine' = "done" /\ renewing' = "none"
    /\ run' = IF seen = "completed" THEN run ELSE "completed"
    /\ UNCHANGED <<sorting, nodes, row, seen, others, faults>>

\* The same on failure: FAILED and CANCELLED tasks are left as they are.
FailTask ==
    /\ engine = "fail" /\ engine' = "fail_run"
    /\ IF task \in {"failed", "cancelled"}
         THEN UNCHANGED row
         ELSE task' = "failed" /\ token' = "none" /\ lease' = "none"
    /\ seen' = run
    /\ UNCHANGED <<sorting, nodes, renewing, run, others, faults>>

FailRun ==
    /\ engine = "fail_run" /\ engine' = "done" /\ renewing' = "none"
    /\ run' = IF seen = "failed" THEN run ELSE "failed"
    /\ UNCHANGED <<sorting, nodes, row, seen, others, faults>>

\* A write of the success path breaks: run_workflow_dag goes to its handler;
\* one of the handler breaks: it only logs.
WriteBreaks ==
    /\ faults < MaxFaults /\ faults' = faults + 1
    /\ \/ engine \in {"complete", "complete_run"} /\ engine' = "fail"
          /\ UNCHANGED renewing
       \/ engine \in {"fail", "fail_run"} /\ engine' = "done" /\ renewing' = "none"
    /\ UNCHANGED <<sorting, nodes, row, run, seen, others>>

\* The API process dies, with the request or the engine in it.
Crash ==
    /\ engine \in Alive
    /\ faults < MaxFaults /\ faults' = faults + 1
    /\ engine' = "gone" /\ renewing' = "none"
    /\ UNCHANGED <<sorting, nodes, row, run, seen, others>>

-----------------------------------------------------------------------------
(* The lease and the sweeps                                                *)

RenewerDies ==
    /\ renewing # "none"
    /\ faults < MaxFaults /\ faults' = faults + 1
    /\ renewing' = "none"
    /\ UNCHANGED <<sorting, engine, nodes, row, run, seen, others>>

\* A live renewer of the row's token prevents it.
Expire ==
    /\ lease = "valid" /\ renewing # token /\ ~(plain = "working" /\ token = "plain")
    /\ lease' = "expired"
    /\ UNCHANGED <<sorting, engine, nodes, task, token, renewing, run, seen,
                   others, faults>>

\* Mutant: the sweep has lost its second half.
SweepReadExpired ==
    /\ sweep = "idle"
    /\ task = "running" /\ lease = "expired" /\ sweep' = "expired"
    /\ UNCHANGED <<sorting, engine, nodes, row, renewing, run, seen, plain,
                   cancel, faults>>

\* A worker selects a task whose lease has run out, or a run whose task has
\* ended: it will take the task's outcome.
SweepRead ==
    /\ sweep = "idle"
    /\ \/ task = "running" /\ lease = "expired" /\ sweep' = "expired"
       \/ /\ run = "running" /\ task \in Terminal
          /\ sweep' = IF task = "completed" THEN "completed" ELSE "failed"
    /\ UNCHANGED <<sorting, engine, nodes, row, renewing, run, seen, plain,
                   cancel, faults>>

\* Mutant: whatever has ended has completed.
SweepWriteCompletes ==
    /\ sweep # "idle" /\ sweep' = "idle"
    /\ run' = "completed"
    /\ UNCHANGED <<sorting, engine, nodes, row, renewing, seen, plain,
                   cancel, faults>>

\* It writes by primary key, task and running run in one transaction.
SweepWrite ==
    /\ sweep # "idle" /\ sweep' = "idle"
    /\ IF sweep = "expired"
         THEN /\ task' = "failed" /\ token' = "none" /\ lease' = "none"
              /\ run' = IF run = "running" THEN "failed" ELSE run
         ELSE run' = sweep /\ UNCHANGED row
    /\ UNCHANGED <<sorting, engine, nodes, renewing, seen, plain, cancel,
                   faults>>

Sweep == SweepRead \/ SweepWrite

-----------------------------------------------------------------------------
(* Everyone else                                                           *)

\* cancel_task knows nothing of runs; it writes what it decided before.
CancelRead ==
    /\ cancel = "idle" /\ task \notin Terminal \cup {"absent"}
    /\ cancel' = "decided"
    /\ UNCHANGED <<sorting, engine, nodes, row, renewing, run, seen, plain, sweep,
                   faults>>

CancelWrite ==
    /\ cancel = "decided" /\ cancel' = "idle"
    /\ task' = "cancelled"
    /\ UNCHANGED <<sorting, engine, nodes, token, lease, renewing, run, seen,
                   plain, sweep, faults>>

Cancel == CancelRead \/ CancelWrite

\* resume-from-step: with a step that has not completed, a node's or an
\* ordinary execution's, the task goes back to PENDING; the run stays.
Resume ==
    /\ task \in {"failed", "cancelled"} /\ task' = "pending"
    /\ \/ \E n \in Nodes : /\ step[n] \in {"failed", "pending"}
                           /\ step' = [step EXCEPT ![n] = "pending"]
       \/ plain = "ended" /\ UNCHANGED step
    /\ UNCHANGED <<sorting, engine, at, node, token, lease, renewing, run, seen,
                   others, faults>>

\* recover_unfinished_tasks of an inline API process that starts.
Recover ==
    /\ task = "running" /\ lease # "valid"
    /\ task' = "pending" /\ token' = "none" /\ lease' = "none"
    /\ UNCHANGED <<sorting, engine, nodes, renewing, run, seen, others, faults>>

\* Either of them, the start-up for any PENDING task, and the run endpoint have
\* the task executed by the orchestrator, which does not look for a run.
PlainClaim ==
    /\ task = "pending" /\ plain # "working" /\ plain' = "working"
    /\ task' = "running" /\ token' = "plain" /\ lease' = "valid"
    /\ UNCHANGED <<sorting, engine, nodes, renewing, run, seen, sweep, cancel,
                   faults>>

\* It writes how it ended, or has lost its lease and returns.
PlainEnds ==
    /\ plain = "working" /\ plain' = "ended"
    /\ \/ task' \in {"completed", "failed"} /\ token' = "none" /\ lease' = "none"
       \/ token # "plain" /\ UNCHANGED row
    /\ UNCHANGED <<sorting, engine, nodes, renewing, run, seen, sweep, cancel,
                   faults>>

-----------------------------------------------------------------------------

Sort     == Refuse \/ PlaceLayer \/ Accept
Work(n)  == NodeSucceeds(n) \/ NodeErrs(n) \/ RecordFailure(n) \/ NodeRaises(n)
Layers   == NextLayer \/ LayerFailed
Settle   == CompleteTask \/ CompleteRun \/ FailTask \/ FailRun
Proceed  == Sort \/ CreateTask \/ CreateRun \/ Begin \/ Layers \/ Settle

Next ==
    \/ Proceed \/ ClaimRefused \/ \E n \in Nodes : Work(n)
    \/ WriteBreaks \/ Crash
    \/ RenewerDies \/ Expire \/ Sweep
    \/ Cancel \/ Resume \/ Recover \/ PlainClaim \/ PlainEnds

Spec == Init /\ [][Next]_vars

\* asyncio runs what can run, nodes answer or time out, time passes, and
\* workers sweep; that an ordinary execution ends is TaskLease's affair.
Fairness ==
    /\ WF_vars(Proceed) /\ \A n \in Nodes : WF_vars(Work(n))
    /\ WF_vars(PlainEnds) /\ WF_vars(Expire) /\ WF_vars(Sweep)

FairSpec == Spec /\ Fairness

-----------------------------------------------------------------------------
(* Properties                                                              *)

\* A node starts only after each of its dependencies has left a completed
\* step: the sort puts them into earlier layers, and no layer overtakes.
DependenciesFirst ==
    \A n \in Nodes : node[n] # "idle" =>
        \A m \in deps[n] : m \in Nodes /\ step[m] = "completed"

\* Once a node has failed, no node of a later layer ever starts.
FailureStopsLaterLayers ==
    \A m, n \in Nodes :
        node[m] \in {"erred", "raised"} /\ layer[m] < layer[n] => node[n] = "idle"

\* A refused template has an unknown dependency, or nodes each of which waits
\* for another of them.
RefusedIsUnsortable ==
    sort = "refused" =>
        \/ \E n \in Nodes : Unknown \in deps[n]
        \/ \E S \in SUBSET Nodes : S # {} /\ \A n \in S : deps[n] \cap S # {}

\* A node that could run in an earlier layer does: some dependency of it is
\* in the layer just before.
LayersAreTight ==
    \A n \in Nodes : layer[n] > 1 => \E m \in deps[n] : layer[m] = layer[n] - 1

Ran == \A n \in Nodes : step[n] = "completed"

\* A run that says completed has executed all of its nodes, whether the engine
\* or the orphan sweep says so, unless its task was executed as an ordinary one.
CompletedRunRanEveryNode == run = "completed" => Ran \/ plain # "never"

\* Once its task has been claimed or cancelled, a run does not stay running,
\* whoever dies and between which two of the commits.
RunIsSettled ==
    run = "running" /\ task # "pending" ~> run # "running" \/ task = "pending"

-----------------------------------------------------------------------------
(* What the properties rest on                                             *)

Placed == {n \in Nodes : layer[n] # 0}

\* The sort: a node's dependencies are placed before it, the counters count
\* those still to be placed, and the current layer is what waits for none.
SortInv ==
    /\ \A n \in Nodes : layer[n] <= layers
    /\ \A n \in Placed : \A m \in deps[n] : m \in Placed /\ layer[m] < layer[n]
    /\ (\A n \in Nodes : Unknown \notin deps[n]) =>
         /\ current = {n \in Nodes : layer[n] = 0 /\ deps[n] \subseteq Placed}
         /\ \A n \in Nodes : indegree[n] = Cardinality(deps[n] \ Placed)
         /\ \A n \in current : layers > 0 => \E m \in deps[n] : layer[m] = layers
    /\ sort = "sorted" => Placed = Nodes
    /\ sort = "open" => engine = "sorting"
    /\ LayersAreTight /\ RefusedIsUnsortable

\* The engine: nodes before the layer it is at have succeeded, nodes behind it
\* are idle, and it completes only when every node has succeeded.
EngineInv ==
    /\ engine \in {"sorting", "create", "create_run", "scheduled"} => at = 0
    /\ engine \notin {"sorting", "done", "gone"} => sort = "sorted"
    /\ \A n \in Nodes : node[n] # "idle" => layer[n] \in 1..at
    /\ \A n \in Placed : layer[n] < at => node[n] = "ok"
    /\ \A n \in Nodes : node[n] = "ok" => step[n] = "completed"
    /\ \A n \in Nodes : step[n] = "completed" => node[n] \in {"ok", "raised"}
    /\ engine \in {"complete", "complete_run"} => Ran

\* The rows: whatever says completed, or is about to, says the truth.
OutcomeInv ==
    "completed" \in {task, sweep, run} => Ran \/ plain # "never"

\* The four together are inductive.
IInv == TypeOK /\ SortInv /\ EngineInv /\ OutcomeInv
=============================================================================
