----------------------------- MODULE NodeDispatch -----------------------------
(* Tasks that run outside: integration_service.py and its bridges.             *)
(*                                                                           *)
(* A background coroutine of the backend dispatches a task to an integration   *)
(* node: it registers a cancel event, prepares the task's directory, counts    *)
(* the task into the node's load, opens a step, waits for the bridge, and      *)
(* writes step, task and load back. The Cursor bridge polls the directory for  *)
(* an output or a CANCELLED marker; the Codex bridge waits for a process. A     *)
(* cancel request reads the task's running step, sets the event it finds in     *)
(* the registry, leaves the marker, and fails step and task. The backend may    *)
(* stop at any time: coroutines, requests and the registry are gone, rows and   *)
(* files stay, and the next start fails the steps older than ten minutes.       *)
(*                                                                           *)
(* A node task is also put on the queue (_create_node_task), and the worker     *)
(* that takes it fails it, for it has no agent. Sessions are not expired at a   *)
(* commit: the load is written from the row as last read, changed columns only. *)
(* Abstracted: prompts, event logs, artifacts, audit records, broadcasts; who   *)
(* may call what (Accounts); the choice among available nodes is any of them.  *)
EXTENDS Integers, Sequences, FiniteSets

CONSTANTS
    Tasks, Nodes, Requests,
    Dispatches,      \* numbers: a dispatch gets the next one
    MaxConcurrency,  \* max_concurrency of each node
    MaxPolls,        \* intervals until the bridge's time limit
    Reports,         \* loads and states that a node's heartbeat may report
    MaxFaults,       \* bound: heartbeats, deletions and markers not written
    NoTask, NoNode, NoDispatch

ASSUME DispatchAssumption ==
    /\ MaxConcurrency \in Nat \ {0} /\ MaxPolls \in Nat \ {0}
    /\ Reports \subseteq [count : 0..MaxConcurrency, status : {"online", "busy", "offline"}]
    /\ Dispatches \subseteq Nat /\ MaxFaults \in Nat
    /\ NoTask \notin Tasks /\ NoNode \notin Nodes /\ NoDispatch \notin Dispatches

VARIABLES
    provider,                   \* the bridge of each node: "cursor" or "codex"
    backend,                    \* "up" or "down"
    pc, onTask, onNode,         \* the dispatch coroutines
    held,                       \* held[d]: the node's row as d last read it
    waited, process, result,    \* the bridge of a dispatch
    event,                      \* event[d]: the cancel event d waits for
    registry,                   \* _CANCEL_EVENTS: whose event a task's entry is
    marker, output,             \* files: <<node, task>> directories that have one
    step, opened, aged,         \* step rows: status, order, older than the lease
    node, deleted,              \* node rows
    task, claimed,              \* task rows; what the queue's worker did
    request,                    \* cancel requests: where they are, what they read
    found,                      \* history: dispatches a cancel found executing
    faults

bridge == <<waited, process, result>>
files  == <<marker, output>>
steps  == <<step, opened, aged>>
nodes  == <<node, deleted>>
vars   == <<provider, backend, pc, onTask, onNode, held, bridge, event, registry, files,
            steps, nodes, task, claimed, request, found, faults>>
-----------------------------------------------------------------------------
Terminal == {"completed", "failed", "cancelled"}
Running  == {"count", "open", "executing", "close", "settle", "release"}
Dir(d)   == <<onNode[d], onTask[d]>>

Fresh == [count |-> 0, status |-> "online"]
Idle  == [at |-> "idle", task |-> NoTask, step |-> NoDispatch]

Init ==
    /\ provider \in [Nodes -> {"cursor", "codex"}]
    /\ backend = "up"
    /\ pc = [d \in Dispatches |-> "none"]
    /\ onTask = [d \in Dispatches |-> NoTask]
    /\ onNode = [d \in Dispatches |-> NoNode]
    /\ held = [d \in Dispatches |-> Fresh]
    /\ waited = [d \in Dispatches |-> 0]
    /\ process = [d \in Dispatches |-> "none"]
    /\ result = [d \in Dispatches |-> "none"]
    /\ event = [d \in Dispatches |-> "clear"]
    /\ registry = [t \in Tasks |-> NoDispatch]
    /\ marker = {} /\ output = {}
    /\ step = [d \in Dispatches |-> "none"]
    /\ opened = <<>> /\ aged = {}
    /\ node = [n \in Nodes |-> Fresh]
    /\ deleted = {}
    /\ task = [t \in Tasks |-> "pending"]
    /\ claimed = [t \in Tasks |-> "no"]
    /\ request = [r \in Requests |-> Idle]
    /\ found = {} /\ faults = 0
-----------------------------------------------------------------------------
(* A dispatch.                                                                 *)

\* _run_node_dispatch in the background.
Schedule(d, t, n) ==
    /\ backend = "up" /\ pc[d] = "none"
    /\ \A e \in Dispatches : e < d => pc[e] # "none"
    /\ n \notin deleted
    /\ pc' = [pc EXCEPT ![d] = "begin"]
    /\ onTask' = [onTask EXCEPT ![d] = t]
    /\ onNode' = [onNode EXCEPT ![d] = n]
    /\ UNCHANGED <<provider, backend, held, bridge, event, registry, files, steps, nodes,
                   task, claimed, request, found, faults>>

\* A message that mentions a node: a new task and its dispatch.
CreateNodeTask(d, t, n) ==
    /\ \A e \in Dispatches : onTask[e] # t
    /\ Schedule(d, t, n)

\* POST /dispatch looks at the node and not at the task's status.
DispatchToNode(d, t, n) == Schedule(d, t, n)

\* An earlier entry of the task is replaced.
RegisterCancelEvent(d) == registry' = [registry EXCEPT ![onTask[d]] = d]

\* The directory gets an empty output, and keeps a marker.
PrepareTask(d) == output' = output \ {Dir(d)}

\* Rows are read; from here to the first commit nothing else runs.
Begin(d) ==
    /\ pc[d] = "begin"
    /\ IF onNode[d] \in deleted
       THEN /\ pc' = [pc EXCEPT ![d] = "broken"]
            /\ UNCHANGED <<held, registry, output>>
       ELSE /\ pc' = [pc EXCEPT ![d] = "count"]
            /\ held' = [held EXCEPT ![d] = node[onNode[d]]]
            /\ RegisterCancelEvent(d)
            /\ PrepareTask(d)
    /\ UNCHANGED <<provider, backend, onTask, onNode, bridge, event, marker, steps, nodes,
                   task, claimed, request, found, faults>>

Occupied(c) == IF c < MaxConcurrency THEN "online" ELSE "busy"

\* Mutant: the load is not capped.
LoadedUncapped(c) == c + 1

Loaded(c)   == IF c + 1 > MaxConcurrency THEN MaxConcurrency ELSE c + 1
Unloaded(c) == IF c = 0 THEN 0 ELSE c - 1

\* Only the columns that differ from the row as d read it are written.
Column(d, column, new) ==
    IF new[column] = held[d][column] THEN node[onNode[d]][column] ELSE new[column]

WriteNode(d, c) ==
    LET new == [count |-> c, status |-> Occupied(c)]
    IN  node' = [node EXCEPT ![onNode[d]] =
                    [count |-> Column(d, "count", new), status |-> Column(d, "status", new)]]

\* A node deleted meanwhile makes the commit raise, and the dispatch ends.
Count(d) ==
    /\ pc[d] = "count"
    /\ IF onNode[d] \in deleted
       THEN /\ pc' = [pc EXCEPT ![d] = "broken"]
            /\ held' = [held EXCEPT ![d] = Fresh]
            /\ UNCHANGED node
       ELSE /\ WriteNode(d, Loaded(held[d].count))
            /\ held' = [held EXCEPT ![d] = node'[onNode[d]]]
            /\ pc' = [pc EXCEPT ![d] = "open"]
    /\ UNCHANGED <<provider, backend, onTask, onNode, bridge, event, registry, files, steps,
                   deleted, task, claimed, request, found, faults>>

Opens(d) ==
    /\ pc[d] = "open"
    /\ pc' = [pc EXCEPT ![d] = "executing"]
    /\ step' = [step EXCEPT ![d] = "running"]
    /\ opened' = Append(opened, d)
    /\ process' = [process EXCEPT ![d] = IF provider[onNode[d]] = "codex" THEN "running" ELSE "none"]

\* Mutant: the entry of the registry is given up before the bridge runs.
OpenStepPops(d) ==
    /\ Opens(d)
    /\ registry' = [registry EXCEPT ![onTask[d]] = NoDispatch]
    /\ UNCHANGED <<provider, backend, onTask, onNode, held, waited, result, event,
                   files, aged, nodes, task, claimed, request, found, faults>>

OpenStep(d) ==
    /\ Opens(d)
    /\ UNCHANGED <<provider, backend, onTask, onNode, held, waited, result, event, registry,
                   files, aged, nodes, task, claimed, request, found, faults>>

\* A success is put to the package's test command: not allowed, not started, out
\* of time or a non-zero exit make it a failure.
Tested(outcome) == IF outcome = "success" THEN {"success", "failure"} ELSE {outcome}

\* execute returns or raises: the registry's entry of the task is popped,
\* whoever registered it. The output has been read.
Finish(d, outcome) ==
    /\ \E tested \in Tested(outcome) : result' = [result EXCEPT ![d] = tested]
    /\ output' = output \ {Dir(d)}
    /\ registry' = [registry EXCEPT ![onTask[d]] = NoDispatch]
    /\ pc' = [pc EXCEPT ![d] = "close"]
    /\ waited' = [waited EXCEPT ![d] = 0]

\* Mutant: the time spent is not added up.
WaitForever(d) == waited[d] < MaxPolls /\ UNCHANGED <<pc, waited, result, registry, output>>

Wait(d) ==
    /\ waited' = [waited EXCEPT ![d] = @ + 1]
    /\ UNCHANGED <<pc, result, registry, output>>

IsCancelled(d) == event[d] = "set" \/ Dir(d) \in marker

\* CursorBridge.execute: cancellation first, then output.md.
Poll(d) ==
    /\ pc[d] = "executing" /\ provider[onNode[d]] = "cursor"
    /\ \/ waited[d] = MaxPolls /\ Finish(d, "failure")
       \/ waited[d] < MaxPolls /\ IsCancelled(d) /\ Finish(d, "cancelled")
       \/ waited[d] < MaxPolls /\ ~IsCancelled(d) /\ Dir(d) \in output /\ Finish(d, "success")
       \/ waited[d] < MaxPolls /\ ~IsCancelled(d) /\ Dir(d) \notin output /\ Wait(d)
    /\ UNCHANGED <<provider, backend, onTask, onNode, held, process, event, marker, steps, nodes,
                   task, claimed, request, found, faults>>

\* CodexBridge.execute: whichever is seen first. A process that ended by itself
\* counts before a cancel when its output is buffered, after it with a budget of
\* turns; the process tree of one that has not is killed.
ProcessResult(d) ==
    /\ process[d] = "ended"
    /\ \E outcome \in {"success", "failure"} : Finish(d, outcome)
    /\ process' = [process EXCEPT ![d] = "none"]

Interrupted(d) ==
    /\ event[d] = "set"
    /\ Finish(d, "cancelled")
    /\ process' = [process EXCEPT ![d] = "none"]

\* It did not start, its time is up, or one turn more than budgeted began.
OutOfBudget(d) ==
    /\ process[d] = "running" /\ event[d] = "clear"
    /\ Finish(d, "failure")
    /\ process' = [process EXCEPT ![d] = "none"]

StillRunning(d) ==
    /\ process[d] = "running" /\ event[d] = "clear" /\ waited[d] < MaxPolls
    /\ Wait(d)
    /\ UNCHANGED process

Await(d) ==
    /\ pc[d] = "executing" /\ provider[onNode[d]] = "codex"
    /\ ProcessResult(d) \/ Interrupted(d) \/ OutOfBudget(d) \/ StillRunning(d)
    /\ UNCHANGED <<provider, backend, onTask, onNode, held, event, marker, steps, nodes,
                   task, claimed, request, found, faults>>

CloseStep(d) ==
    /\ pc[d] = "close"
    /\ step' = [step EXCEPT ![d] = IF result[d] = "success" THEN "completed" ELSE "failed"]
    /\ pc' = [pc EXCEPT ![d] = "settle"]
    /\ UNCHANGED <<provider, backend, onTask, onNode, held, bridge, event, registry, files, opened,
                   aged, nodes, task, claimed, request, found, faults>>

\* Mutant: a cancelled dispatch leaves the task to the cancel request.
OutcomeUnlessCancelled(d) ==
    IF result[d] = "success" THEN "completed"
    ELSE IF result[d] = "cancelled" THEN task[onTask[d]]
    ELSE "failed"

Outcome(d) == IF result[d] = "success" THEN "completed" ELSE "failed"

\* The task's status is written whatever it is by now.
SettleTask(d) ==
    /\ pc[d] = "settle"
    /\ task' = [task EXCEPT ![onTask[d]] = Outcome(d)]
    /\ pc' = [pc EXCEPT ![d] = "release"]
    /\ UNCHANGED <<provider, backend, onTask, onNode, held, bridge, event, registry, files, steps,
                   nodes, claimed, request, found, faults>>

Release(d) ==
    /\ pc[d] = "release"
    /\ IF onNode[d] \in deleted THEN UNCHANGED node
                                ELSE WriteNode(d, Unloaded(held[d].count))
    /\ pc' = [pc EXCEPT ![d] = "done"]
    /\ held' = [held EXCEPT ![d] = Fresh]
    /\ UNCHANGED <<provider, backend, onTask, onNode, bridge, event, registry, files, steps,
                   deleted, task, claimed, request, found, faults>>
-----------------------------------------------------------------------------
(* POST /tasks/{id}/cancel.                                                    *)

Goto(r, at) == request' = [request EXCEPT ![r].at = at]

CancelRequest(r, t) ==
    /\ backend = "up" /\ request[r].at = "idle"
    /\ task[t] \notin Terminal
    /\ request' = [request EXCEPT ![r] = [Idle EXCEPT !.at = "signal", !.task = t]]
    /\ UNCHANGED <<provider, backend, pc, onTask, onNode, held, bridge, event, registry, files,
                   steps, nodes, task, claimed, found, faults>>

\* The running step of the task with the highest id.
LastRunning(t) ==
    LET open == {i \in DOMAIN opened : onTask[opened[i]] = t /\ step[opened[i]] = "running"}
    IN  IF open = {} THEN NoDispatch
        ELSE opened[CHOOSE i \in open : \A j \in open : j <= i]

\* The marker goes to the directory of the step's node, unless the node is
\* deleted or the file cannot be written.
LeaveMarker(d) ==
    \/ onNode[d] \notin deleted /\ marker' = marker \cup {Dir(d)} /\ UNCHANGED faults
    \/ onNode[d] \in deleted /\ UNCHANGED <<marker, faults>>
    \/ faults < MaxFaults /\ faults' = faults + 1 /\ UNCHANGED marker

\* cancel_external_execution up to its commit: the event found in the registry
\* is popped and set.
CancelSignal(r) ==
    LET t == request[r].task
        d == LastRunning(t)
        e == registry[t]
    IN
    /\ request[r].at = "signal"
    /\ IF d = NoDispatch
       THEN Goto(r, "task") /\ UNCHANGED <<event, registry, marker, found, faults>>
       ELSE /\ request' = [request EXCEPT ![r].at = "step", ![r].step = d]
            /\ registry' = [registry EXCEPT ![t] = NoDispatch]
            /\ event' = IF e = NoDispatch THEN event ELSE [event EXCEPT ![e] = "set"]
            /\ LeaveMarker(d)
            /\ found' = IF pc[d] = "executing" THEN found \cup {d} ELSE found
    /\ UNCHANGED <<provider, backend, pc, onTask, onNode, held, bridge, output, steps, nodes,
                   task, claimed>>

CancelStep(r) ==
    /\ request[r].at = "step"
    /\ step' = [step EXCEPT ![request[r].step] = "failed"]
    /\ Goto(r, "task")
    /\ UNCHANGED <<provider, backend, pc, onTask, onNode, held, bridge, event, registry, files,
                   opened, aged, nodes, task, claimed, found, faults>>

CancelTask(r) ==
    /\ request[r].at = "task"
    /\ task' = [task EXCEPT ![request[r].task] = "cancelled"]
    /\ request' = [request EXCEPT ![r] = [Idle EXCEPT !.at = "done"]]
    /\ UNCHANGED <<provider, backend, pc, onTask, onNode, held, bridge, event, registry, files,
                   steps, nodes, claimed, found, faults>>
-----------------------------------------------------------------------------
(* The node, the host, the queue.                                               *)

Disturb == backend = "up" /\ faults < MaxFaults /\ faults' = faults + 1

Heartbeat(n, report) ==
    /\ Disturb /\ n \notin deleted
    /\ node' = [node EXCEPT ![n] = report]
    /\ UNCHANGED <<provider, backend, pc, onTask, onNode, held, bridge, event, registry, files,
                   steps, deleted, task, claimed, request, found>>

DeleteNode(n) ==
    /\ Disturb /\ n \notin deleted
    /\ deleted' = deleted \cup {n}
    /\ UNCHANGED <<provider, backend, pc, onTask, onNode, held, bridge, event, registry, files,
                   steps, node, task, claimed, request, found>>

\* The client of a Cursor node writes output.md, also for a prompt of before.
HostWrites(n, t) ==
    /\ provider[n] = "cursor"
    /\ \E d \in Dispatches : Dir(d) = <<n, t>> /\ pc[d] = "executing"
    /\ <<n, t>> \notin output
    /\ output' = output \cup {<<n, t>>}
    /\ UNCHANGED <<provider, backend, pc, onTask, onNode, held, bridge, event, registry, marker,
                   steps, nodes, task, claimed, request, found, faults>>

ProcessEnds(d) ==
    /\ process[d] = "running"
    /\ process' = [process EXCEPT ![d] = "ended"]
    /\ UNCHANGED <<provider, backend, pc, onTask, onNode, held, waited, result, event, registry, files,
                   steps, nodes, task, claimed, request, found, faults>>

\* run_task of a task without agent: claimed, and failed.
WorkerClaims(t) ==
    /\ task[t] = "pending" /\ claimed[t] = "no"
    /\ task' = [task EXCEPT ![t] = "running"]
    /\ claimed' = [claimed EXCEPT ![t] = "yes"]
    /\ UNCHANGED <<provider, backend, pc, onTask, onNode, held, bridge, event, registry, files,
                   steps, nodes, request, found, faults>>

WorkerFails(t) ==
    /\ claimed[t] = "yes"
    /\ task' = [task EXCEPT ![t] = "failed"]
    /\ claimed' = [claimed EXCEPT ![t] = "done"]
    /\ UNCHANGED <<provider, backend, pc, onTask, onNode, held, bridge, event, registry, files,
                   steps, nodes, request, found, faults>>
-----------------------------------------------------------------------------
(* Stop and start.                                                             *)

Age(d) ==
    /\ step[d] = "running" /\ d \notin aged
    /\ pc[d] = "lost"
    /\ aged' = aged \cup {d}
    /\ UNCHANGED <<provider, backend, pc, onTask, onNode, held, bridge, event, registry, files,
                   step, opened, nodes, task, claimed, request, found, faults>>

Stop ==
    /\ backend = "up"
    /\ backend' = "down"
    /\ pc' = [d \in Dispatches |-> IF pc[d] \in Running \cup {"begin"} THEN "lost" ELSE pc[d]]
    /\ registry' = [t \in Tasks |-> NoDispatch]
    /\ request' = [r \in Requests |-> IF request[r].at = "idle" THEN Idle
                                        ELSE [Idle EXCEPT !.at = "done"]]
    /\ held' = [d \in Dispatches |-> Fresh]
    /\ waited' = [d \in Dispatches |-> 0]
    /\ process' = [d \in Dispatches |-> "none"]
    /\ event' = [d \in Dispatches |-> "clear"]
    /\ found' = {}
    /\ UNCHANGED <<provider, onTask, onNode, result, files, steps, nodes, task, claimed, faults>>

\* Mutant: a step is recovered only together with its task.
OrphansOfRunningTasks == {d \in aged : step[d] = "running" /\ task[onTask[d]] = "running"}

Orphans == {d \in aged : step[d] = "running"}

\* lifespan: recover_orphan_integration_steps before the first request.
Start ==
    /\ backend = "down"
    /\ backend' = "up"
    /\ step' = [d \in Dispatches |-> IF d \in Orphans THEN "failed" ELSE step[d]]
    /\ task' = [t \in Tasks |->
                  IF task[t] = "running" /\ \E d \in Orphans : onTask[d] = t
                  THEN "failed" ELSE task[t]]
    /\ UNCHANGED <<provider, pc, onTask, onNode, held, bridge, event, registry, files, opened, aged,
                   nodes, claimed, request, found, faults>>
-----------------------------------------------------------------------------
Coroutine(d) ==
    \/ Begin(d) \/ Count(d) \/ OpenStep(d) \/ Poll(d) \/ Await(d)
    \/ CloseStep(d) \/ SettleTask(d) \/ Release(d)

Cancel(r) ==
    \/ \E t \in Tasks : CancelRequest(r, t)
    \/ CancelSignal(r) \/ CancelStep(r) \/ CancelTask(r)

Next ==
    \/ \E d \in Dispatches, t \in Tasks, n \in Nodes :
            CreateNodeTask(d, t, n) \/ DispatchToNode(d, t, n)
    \/ \E d \in Dispatches : Coroutine(d) \/ ProcessEnds(d) \/ Age(d)
    \/ \E r \in Requests : Cancel(r)
    \/ \E n \in Nodes, report \in Reports : Heartbeat(n, report)
    \/ \E n \in Nodes : DeleteNode(n)
    \/ \E n \in Nodes, t \in Tasks : HostWrites(n, t)
    \/ \E t \in Tasks : WorkerClaims(t) \/ WorkerFails(t)
    \/ Stop \/ Start

Spec == Init /\ [][Next]_vars

\* The event loop goes on while the backend is up, its bridges have time limits
\* (Wait is bounded), and time passes. Nobody promises that a host answers, that
\* somebody cancels, or that the backend is started again.
FairSpec ==
    /\ Spec
    /\ \A d \in Dispatches : WF_vars(Coroutine(d)) /\ WF_vars(Age(d))
-----------------------------------------------------------------------------
(* Properties.                                                                 *)

Load == [count : 0..MaxConcurrency, status : {"online", "busy", "offline"}]
Asking == [at : {"idle", "signal", "step", "task", "done"},
           task : Tasks \cup {NoTask}, step : Dispatches \cup {NoDispatch}]

\* Types; a node's load stays between 0 and its maximum.
TypeOK ==
    /\ provider \in [Nodes -> {"cursor", "codex"}] /\ backend \in {"up", "down"}
    /\ pc \in [Dispatches -> {"none", "begin", "done", "broken", "lost"} \cup Running]
    /\ onTask \in [Dispatches -> Tasks \cup {NoTask}]
    /\ onNode \in [Dispatches -> Nodes \cup {NoNode}]
    /\ held \in [Dispatches -> Load]
    /\ waited \in [Dispatches -> 0..MaxPolls]
    /\ process \in [Dispatches -> {"none", "running", "ended"}]
    /\ result \in [Dispatches -> {"none", "success", "failure", "cancelled"}]
    /\ event \in [Dispatches -> {"clear", "set"}]
    /\ registry \in [Tasks -> Dispatches \cup {NoDispatch}]
    /\ marker \subseteq Nodes \X Tasks /\ output \subseteq Nodes \X Tasks
    /\ step \in [Dispatches -> {"none", "running", "completed", "failed"}]
    /\ opened \in Seq(Dispatches) /\ aged \subseteq Dispatches
    /\ node \in [Nodes -> Load]
    /\ deleted \subseteq Nodes
    /\ task \in [Tasks -> {"pending", "running"} \cup Terminal]
    /\ claimed \in [Tasks -> {"no", "yes", "done"}]
    /\ request \in [Requests -> Asking]
    /\ found \subseteq Dispatches /\ faults \in 0..MaxFaults

Sole(d) == \A e \in Dispatches : e # d => onTask[e] # onTask[d]

\* A cancel request that finds a dispatch executing is heard by it, when the
\* task has been dispatched once: its own event is set. A Cursor dispatch that
\* heard it in time is not a success, whatever the host writes afterwards.
CancelIsHeard ==
    \A d \in found : Sole(d) =>
        /\ event[d] = "set"
        /\ pc[d] = "executing" /\ provider[onNode[d]] = "cursor" => result[d] = "none"
        /\ provider[onNode[d]] = "cursor" => result[d] # "success"

\* A dispatch that ran to its end leaves its step and its task settled, however
\* cancel requests, the queue's worker, other dispatches and restarts interleave.
EndedDispatchIsSettled ==
    \A d \in Dispatches : pc[d] = "done" =>
        step[d] \in {"completed", "failed"} /\ task[onTask[d]] \in Terminal

\* Every dispatch that has begun ends, unless the backend stops under it: again
\* and again there is none on the way (a dispatch begins once).
DispatchesEnd == []<>(\A d \in Dispatches : pc[d] \notin Running \cup {"begin"})

\* If the backend is started again and again, no step of a lost dispatch is
\* running for good.
OrphansAreFailed ==
    ([]<><<Start>>_vars) => []<>(\A d \in Dispatches : pc[d] = "lost" => step[d] # "running")
=============================================================================
