# Agent-Together: TLA+ models, model checking and proofs

Agent-Together is a FastAPI backend (`src/backend/app`) with a Next.js front end
in which users and LLM agents share conversations.  A message that mentions an
agent, a workflow template or a bound terminal becomes a *task* row; tasks are
executed by coroutines of the API process (inline mode) or by worker processes
(queue mode).  There is one database and no broker: who may execute a task, for
how long, and who may settle it is decided by compare-and-set updates, leases
with tokens and periodic sweeps.  That protocol is the core of these modules;
around it they model how a task gets in (`Admission`), what several agents make
of it (`Collaboration`), how it runs on a node outside (`NodeDispatch`), and the
people, models, events and plugins beside it (`Console`).

Run everything from this directory: `tlc -config X.cfg MCModule.tla` for a
model-checking run, `tlapm MProofs.tla` for the proofs of a module.

## 1. Inventory

Paths are relative to `src/backend/app`.

| Component | State | Operations | Talks to |
|---|---|---|---|
| Task lease, `services/task_lease.py` | `Task.status`, `execution_token`, `execution_token_expires_at` | claim (compare-and-set on PENDING, reset of an expired claim), renew, release, sweep to FAILED | orchestrator, DAG engine, worker, message hub |
| Task queue, `services/task_service.py` | `TaskQueueItem`: status, attempts, lease token and expiry, `available_at` | enqueue, claim_next, renew, complete, fail, recover | API producers, worker |
| Worker, `worker.py` | consumer coroutines, one renewer each | consume, settle, sweep every interval | queue, lease, orchestrator |
| Orchestrator, `core/orchestrator.py` | task row, steps, model calls, agent status, messages | single agent, relay chain, manager with sub-tasks, tool loop, human approval, resilient failure marking | lease, LiteLLM gateway, WebSocket |
| DAG engine, `services/dag_engine.py`, and `api/v1/endpoints/workflows.py` | `WorkflowRun`, node steps | layering, layer-parallel execution, approval node, run completion | lease, orchestrator helpers |
| Task endpoints, `api/v1/endpoints/tasks.py`, `task_replay.py` | task row, approval step | create, run, cancel, approve, reject, resume from step | lease, queue, bridges |
| Message hub, `core/message_hub.py` | tasks, scheduled coroutines | submit, active-task limit, node dispatch, start-up recovery | queue, orchestrator, bridges |
| Integration bridges, `services/integration_service.py`, `bridge.py`, `codex_bridge.py`, `cursor_bridge.py` | workspace nodes, cancel events, executions | dispatch, cancel, orphan recovery, heartbeat | task row |
| Quota, `services/quota_service.py` | the workspace's quota row, model-call aggregates, a rate counter in Redis and one in the process | check before submit, change of the row | message hub, endpoints |
| Auth and membership, `core/auth.py`, `core/permissions.py`, `endpoints/auth.py`, `workspaces.py`, `workspace_members.py` | users, refresh tokens, members, invitations | register, login, refresh, logout, invite, join, change of role, remove | all endpoints |
| WebSocket layer, `websocket/*` | connections, publisher and subscriber | connect with a snapshot, broadcast, publish, relay over Redis, reconnect | everything that broadcasts |
| LiteLLM gateway, `services/litellm_service.py`, and `endpoints/provider_keys.py`, `custom_models.py`, `models.py`, `agents.py` | keys, custom models, agents | resolve a chain of fallbacks, call along it, edit what it is made of | orchestrator |
| Plugins, `endpoints/plugins.py`, `services/tools.py`, `services/webhook.py` | plugins, their mounts in a workspace | register, mount, switch, configure, load tools, call them, tell the end of a task | orchestrator |
| Worker registry, redaction, cryptography, audit, cost, seed, migrations, front end | records without a protocol | | |

### What is hard in it, and what makes a component correct

* **Task lease.** Executors, renewers, sweeps and handlers write one row from
  different processes, mostly by primary key and without a condition.  Correct:
  a claim is exclusive, an active row always carries a lease by which the sweep
  finds it, whoever returns leaves nothing behind, a lost lease stays lost, and
  no row stays RUNNING for good.
* **Task queue and worker.** An item is selected, leased, renewed, settled,
  recovered by different processes, each of which may die.  Correct: attempts, and
  with them the consumers of one task, stay bounded, one consumer per task while leases hold, a late settlement does
  not touch the next bearer's lease, a pending task is taken up.
* **Human approval.** The executor and the administrators' requests meet only in
  the rows; a deadline, a lease, cancels and a sibling gate interfere.  Correct:
  nothing behind a gate runs unapproved, the recorded decision agrees with the
  outcome, a waiting step can be decided, a suspension ends.
* **DAG engine.** A layer runs after all of the layers before it, a node after
  its dependencies; the run's status agrees with the task's.
* **Multi-agent orchestration.**  A turn is given all answers before it and
  nothing else; a failure is recorded on the turn that failed and costs the others
  nothing; every run ends with the task settled, tools that never converge and one
  failing write included.
* **Message hub and quota.**  Quota row, usage, rate and active tasks are looked at
  before the insert, each in a transaction of its own.  Correct: the limits give
  way only to overlapping requests, and by no more than that; a stored task is
  always in somebody's hands, also across a restart.
* **Bridges.**  Dispatch, host, cancel request, time limit, the queue's worker and
  the recovery at start-up meet in rows, files and a registry of events.  Correct:
  a cancel that finds a dispatch is heard by it, and step and task are settled.
* **Auth and membership.**  Requests check a role and commit later.  Correct: a
  workspace keeps an owner, an invitation admits one, a logged-out token is refused.
* **WebSocket layer.**  Snapshots, broadcasts and relays overtake one another and
  get lost.  Correct: a client ends with the committed state and hears of nothing
  twice.
* **Gateway.**  The chain is made of rows that change under it.  Correct: a call
  follows the chain it found, and a model in use is not deleted.
* **Plugins.**  Tools are loaded once and called later.  Correct: a call reaches the
  plugin that offered the tool, and an end of a task every enabled plugin.

`PROJECT.json` lists the hazards at their lines, with the properties that cover
them.

## 2. Modules

| Module | Models | Variables and the code's state |
|---|---|---|
| `TaskLease` | the row of one task without approval nodes, and all its writers: orchestrator (single-agent path), DAG runs, renewers, sweeping workers, cancel, resume and start-up recovery | `status`, `token`, `lease` are the columns (the lease's expiry as none, valid or expired); `pc` is the place in `run_task` or `run_workflow_dag`; `renewing` the background renewer; `lost` the `cancel_event`; `session` what a sweep or a handler has read and not yet written |
| `TaskQueue` | the queue items, the worker's consumers, submit and resume | `state`, `attempts`, `token`, `lapsed`, `delayed` are the item's columns; `phase`, `job`, `candidates` a consumer in `_consume_once` and `claim_next`; `owed` the transactions a handler has still to run; `task` is `Task.status` |
| `LeasedDelivery` | abstract: what the queue promises, without leases, clocks or crashes | the refinement is `ImplementsDelivery` of `TaskQueue` |
| `Approval` | the gates of one execution, approve, reject, cancel, the renewer and the sweep | `step` and `created` are the `task_steps` rows; `gate`, `run` the executor; `loaded` the status its ORM session holds; `request`, `picked`, `verdict` a handler |
| `DagRun` | one run of a workflow template: the request that sorts and creates it, the engine, the sweeps, and whoever else executes or settles its task | `indegree`, `current`, `layers`, `layer` are the variables of `topological_sort`; `engine` and `at` the place in `run_workflow_template`, `run_workflow_dag` and `execute_dag`; `node` the coroutines under `gather`; `step` the `task_steps` rows; `task`, `token`, `lease`, `run` the columns; `seen` the run as the engine's session loaded it; `plain` an ordinary execution of the task |
| `Collaboration` | one run of a task of several agents: relay, or a manager's plan with sub-tasks one by one or side by side | `pc`, `turn` the place in `_run_relay_task` and `_run_multi_agent_task`; `hop` is `hop_ctx`; `outputs` what is handed on; `steps`, `calls`, `messages`, `agents`, `task` the rows; `writer` which session records a failure |
| `NodeDispatch` | tasks executed by integration nodes: dispatch coroutines, both bridges, the host, cancel requests, heartbeats, a backend that stops and starts | `registry` and `event` are `_CANCEL_EVENTS`; `marker`, `output` the files; `held` the node's row as a coroutine's session has it, `node` the row; `opened` the order of the steps' ids |
| `Admission` | from a request to a task somebody runs: quota, rate limiter, mentions, cap, insert, queue, dispatch, recovery at start-up, in both execution modes | `redis` the counter of the minute, `bucket` the list in the process; `quota` the row; `request` what each handler has read; `attended` tasks in the hands of a coroutine or the worker |
| `Accounts` | users, sessions and memberships | `role`, `code`, `token` the rows; `request` what each handler has read and is about to write |
| `Gateway` | keys, custom models, agents, and calls along a chain of fallbacks | `stored`, `custom`, `model` the rows; `session` a task with what it read and the call it makes |
| `Stream` | snapshots, broadcasts, publication and relay of the events of a task | `version` stands for the row; `inbox` what an instance's relay has still to handle; `client` a connection and what it was told |
| `Plugins` | registration, mounts, loading and calling of tools, notices | `mounts` is `workspace_plugins`; `job` the task and the tools it loaded; `post` the request under way |
| `Console` | the four above side by side | `side` says which of them a behaviour is about |
| `TaskLeaseProofs`, `TaskQueueProofs`, `ApprovalProofs`, `DagRunProofs`, `CollaborationProofs`, `NodeDispatchProofs`, `AdmissionProofs` | the theorems about the module they are named after | the invariants that are inductive, and one lemma for each kind of step |
| `ConsoleProofs` | the theorems about `Accounts`, `Gateway`, `Stream` and `Plugins`, through `Console` | a part for each of the four |
| `MCTaskLease`, `MCTaskQueue`, `MCApproval`, `MCDagRun`, `MCCollaboration`, `MCNodeDispatch`, `MCAdmission`, `MCConsole` | symmetry, shapes, templates, mentions and manifests for TLC | |

How code becomes actions.  Each database transaction is one action, with all that
the handler does up to its next `await` on the database.  A read in one
transaction and the write it leads to in another are two actions, with anything
in between.  The ORM emits `UPDATE ... WHERE id = ?`, so such a write lands
whatever the row has become.  It leaves out columns whose value the session
believes unchanged: `WriteTerminalBare` of `TaskLease` and `loaded` of `Approval`
are there for that (sessions do not expire their objects on commit,
`db/session.py`).  Inside one short session that reads and writes at once the two
are one action, except where a property turns on the gap.  Data is abstracted to
what the properties tell apart: texts, model answers, results, audit records and
broadcasts are left out, a clock is the difference between valid and expired.

Operators named as mutants (a comment says so) are small deliberate bugs that the
listed properties are known to catch; nothing in the specifications uses them.

Abstractions a reader should know:

* `TaskLease` has one task: tasks share no lease state.  `CanStall` allows a lease
  to lapse under a live renewer.  The claim's `now` is read when its statement
  runs.  `LIMIT` clauses of the sweeps are ignored: a later sweep takes the rest.
* `TaskQueue` sees the task row through `Interfere`, any other writer's statuses:
  more behaviours than `TaskLease` allows, never fewer.  The order in which
  `claim_next` tries its candidates, and its limit of ten, are ignored.
* `Approval` has one execution of the task; a live renewer keeps its lease (the
  case of a stalled process is that of a dead renewer).  `Fail` stands for
  any failure of the other work between gates.
* `DagRun` has no approval nodes (`Approval`'s matter), and of the claim only
  that it is taken or refused (`TaskLease`'s).  A second execution of the task is
  one variable: when it claims, and how it ends.  Duplicate dependencies count
  twice on both sides of the counter and are left out.  The template's order
  within a layer does not matter to `gather`, and is left out too.

* `Collaboration`: one tool call stands for the calls of a round; an answer is the
  turn that gave it; a lost lease is an event (how it is lost is `TaskLease`'s).
* `NodeDispatch`: a step's age is below or above ten minutes; a process of the
  Codex bridge runs or has ended; files are there or not.
* `Admission`: one workspace and one backend; a minute is a number of moments; a
  month's usage blocks or does not, as it pleases.
* `Accounts`, `Gateway`, `Plugins`: a request is split at its last read: `Begin...` is
  all up to it, the action named like the handler the rest.  `Gateway`'s references
  to a provider's model are the provider.  `Stream`: a version stands for the content
  of the row.
* `Console` puts the four side by side.  They have no row in common behind the check
  of the caller's role, so that a behaviour has the steps of one of them, chosen at
  the start: interleaving them would multiply states and add no case.

## 3. Model checking

| Run | Instance | What it shows |
|---|---|---|
| `TaskLease_safety` | two orchestrators, a DAG run, a sweep, a handler, stalls | `ActiveRowHasLease`, `ReturnedExecutorHoldsNothing`, `SoleOrchestrator`, `LostLeaseStaysLost` |
| `TaskLease_liveness` | one of each, fair | `RunningIsSettled`: no row stays RUNNING |
| `TaskQueue_safety` | one task, three consumers, two attempts, lapsing leases, one resume, two faults, all interference | `DeliveriesBounded` |
| `TaskQueue_exclusive` | two tasks, two consumers, three attempts, two faults, other writers that end the task, fair | `OneConsumerPerTask`, the refinement of `LeasedDelivery` (`ImplementsDelivery`), and `PendingTaskIsTaken` |
| `Approval_dag` | gates g1, g2 side by side and g3 behind them, one request at a time (over and over), cancels, one fault | `NoWorkUnapproved`, `CompletedIsApproved` |
| `Approval_single` | one gate of a multi-agent task, two requests, one fault, fair | `WaitingStepIsDecidable`, `SuspensionEnds` |
| `DagRun_all` | all templates of three nodes up to renaming, with cycles, self-dependencies and unknown ids; one fault, cancels, resumes, restarts; fair | `DependenciesFirst`, `FailureStopsLaterLayers`, `RefusedIsUnsortable`, `CompletedRunRanEveryNode`, `RunIsSettled` |
| `Collaboration_all` | relay of three hops; three sub-tasks one by one and side by side, two at a time; every set of absent agents, a lost lease, one failing write, one round of tools; fair | `AnswersAreHandedOver`, `FailuresStayApart`, `OneFaultIsSurvived`, `RunEnds` |
| `Collaboration_review` | one sub-task, then review and final summary; nothing fails but the model | finding: `FailureNeverBlamesAnother` does not hold |
| `NodeDispatch_all` | one task, a node of either kind for one task at a time, two dispatches, a cancel request, the queue's worker, the host, one heartbeat, deletion or unwritten marker, stops and starts; fair | `CancelIsHeard`, `EndedDispatchIsSettled`, `DispatchesEnd`, `OrphansAreFailed` |
| `Admission_all` | three requests (messages to a relay with a repetition, to a node, to nobody; posted tasks; changes of the quota), room for one active task, a rate limit of one or none, three moments, one stop of the backend or loss of Redis, both modes | `RateIsBounded`, `CapIsBounded`, `NobodyIsForgotten` |
| `Console_all` | people: three users, two workspaces, one invitation, two tokens, four requests. Models: two providers, two custom models and an alias with fallbacks towards each other and themselves, three requests under one task. Events: two instances with a client each, two changes, one fault. Plugins: two plugins with a tool name in common and one the program has itself, three requests under one task, two attempts | `MembershipSound`, `LogoutIsFinal`, `CallFollowsChain`, `DeletedModelIsUnused`, `ClientsFollow`, `RequestsReachTheirPlugin` |

`TypeOK` is an invariant of the runs of `TaskLease`, `Collaboration`, `NodeDispatch`,
`Admission` and `Console`; it is proved for every module.

**Bounds.**  The hazards take two actors and one row between them; a third
executor (or consumer) is there so that one may take over while the first still
works and the second returns.  `MaxAttempts` is two or three because a first, a
middle and a last attempt behave differently; `MaxFaults` and `MaxResumes` bound
crashes and resumes, as everything else returns to earlier states.  Three gates
give a sibling and a successor.  Three nodes give chains, forks, joins and every
small cycle.  In `Approval` requests return to idle, so one handler is
any number of requests one after another.

Three hops (or sub-tasks) give a first, a middle and a last one, and with two
calls at a time one that waits for a slot.  A second dispatch of a task is what
takes the first one's entry in the registry; on a node of capacity one the two
also meet in its load.  Three requests to `Admission` are one that counts, one that
overtakes it and one that finds the result; a limit of one active task stands for
three (`MAX_RUNNING_TASKS_PER_WORKSPACE`), as the cap is looked at one task at a time.
Four requests of `Accounts` let two overlap behind the two that prepared them (an
invitation and a registration, a login and a logout); the first state may also be
a workspace with members.  Two attempts of a webhook are a first and a last one
(the code makes three).  Requests are numbered in the order of their arrival and do
not come back, hence `CHECK_DEADLOCK FALSE`: they run out, as a task ends, and
then nothing happens.

**Fairness.**  `TaskLease` and `Approval`: asyncio schedules every coroutine that
can run, model calls return or time out, a poll loop has a deadline, clocks
advance, and `_sweep_expired_leases` runs at every interval.  `TaskQueue`: the
consumer loop of `worker.py` goes on, a handler once begun goes on, delays and
the leases of the dead run out, `recover` runs at every interval.  `DagRun`: the
same as `TaskLease`, and an ordinary execution ends, which is `RunningIsSettled`
there.  `worker.py` is assumed to run beside the API, whose own start-up sweeps
once only.  `Collaboration`: the executor goes on, for a model call has a time limit
(`litellm_service.py`).  `NodeDispatch`: the coroutine of a dispatch goes on while
the backend is up, and time passes; `OrphansAreFailed` has as its premise that the
backend is started again and again, since nothing else recovers steps.  Nothing is
fair about claims by orchestrators that nobody calls, about failures, cancels or
decisions, hosts or heartbeats: nobody has to approve anything.  `Admission` and
`Console` state safety only.

Weak fairness suffices, with one remark: in `TaskQueue` a consumer's steps are
one fairness condition, so that a worker which tries and misses has made progress.

### Finding

*A failed review blames a worker* (`Collaboration_review`).  `hop_ctx` is never
cleared after the worker phase, and the outer handler prefers it
(`orchestrator.py:932`): when the review or the final summary fails, the last
worker's completed step becomes failed and its agent too, while the review's own
step and agent stay running.  `orchestrator.py:1140` says that attribution must
point at the hop that failed.  `FailuresStayApart` states what does hold: relay,
plan and sub-tasks are attributed rightly.

### Where the code does less than it says

Met while modelling, and reachable in the models.  The properties say precisely
what holds in spite of these, so that most of their premises are one of the
following.

*Leases and the queue.*  `_mark_failed` catches the lease-lost exception of its own
guard, and its fallback session writes the FAILED that the guard refused
(`orchestrator.py:1752`).  A renewer that meets a database error leaves its
executor at work without a lease (`task_lease.py:148`).  The reset of an expired
claim and the sweep write by primary key what they read before, and can strike a
lease taken in between (`task_lease.py:86`, `215`); `fail` of the queue does the
same to an item (`task_service.py:143`).  An item at its last attempt stays leased
when its consumer dies, where PRD-Phase2持久化任务队列与独立Worker.md:22 wants it
dead (`task_service.py:164`).  A resume queues an item that an old consumer still
bears, or one without attempts left (`task_service.py:40`, `task_replay.py:187`).
They are why the theorems about exclusive consumers assume `Undisturbed`, and why
`TaskLease` promises one orchestrator only until a claimed row is reopened.

*Approval.*  Of two concurrent decisions on a gate both find the waiting step; the
executor acts on the first and the second stays recorded (`tasks.py:348`, hence
`OneAtATime`).  Gates of one layer share the task's status: after the first decision
the second gate cannot be decided (`dag_engine.py:319` against `tasks.py:326`, hence
`OneGate`).  Step and task are written in two transactions, and the second one may
put a settled task back to RUNNING without a lease (`tasks.py:353` against
PRD-人工审批节点.md:57).

*Workflows.*  Before the engine's claim, and after its lease has run out, the task
of a workflow looks like any other; a recovery, a resume or the run endpoint hands
it to the orchestrator, and the orphan sweep takes that task's outcome for the
run's (`task_lease.py:268`): `CompletedRunRanEveryNode` says when it does not.  With
workers only, a process that dies before the claim leaves a PENDING task that no
queue knows (`workflows.py:350`).

*Admission.*  Messages that overlap pass the cap together (docs/代码审查报告.md:48);
`CapIsBounded` bounds them.  A task posted with `POST /tasks` is stored without a look
at the cap and dispatched by nobody until `run`; in queue mode a crash between commit
and enqueue strands a task (`message_hub.py:305`); an inline restart leaves tasks
beyond the limit, and RUNNING tasks whose lease still holds, to the next one
(`message_hub.py:160`): the three exceptions of `NobodyIsForgotten`.  The configured
`max_concurrent_tasks` is enforced nowhere, a constant is
(PRD-工作区配额与限流治理.md:51).

*Nodes.*  A node task is enqueued as well as dispatched, and the worker that takes it
fails it, for it has no agent; the dispatch settles it again.  A dispatch writes
COMPLETED or FAILED over a CANCELLED task (`integration_service.py:344` against
PRD-外部任务包元数据与状态机补齐.md:31).  A second dispatch of a task takes
the first one's entry in the registry: hence `Sole` in `CancelIsHeard`.

*People.*  An owner may demote the only owner, himself included
(PRD-角色权限与多租户隔离.md:145); and a target read as a member may be
promoted, and the promoter demoted, before the removal commits
(`workspace_members.py:261` against `:271`): hence `demoted`.  Two joins that read
one invitation both succeed (`workspace_members.py:157`): hence `raced`.

*Models.*  A call whose chain ends in an unknown model or in a cycle is refused
before its first model is tried (`litellm_service.py:272`).  A task reads keys and
custom models once, and goes on with a key that was deleted.

*Events.*  An event between the building of a snapshot and the connection's entry
into the manager is lost; events carry no version, so that the older of two that
cross wins until the next connection (`router.py:45`, `relay.py:63`): hence `doubt`.

*Plugins.*  A manifest that is JSON but no object is committed before it is refused
with an error; once such a plugin is enabled, loading raises outside its `try`, and
every task of the workspace that loads tools fails.  A plugin switched off during a
task is still called by it (`tools.py:412`).

## 4. Proofs

Every theorem holds for all values of the constants that satisfy the assumptions
stated beside them: any number of executors, tasks, consumers, gates, handlers.

| Theorem | States | Assumes |
|---|---|---|
| `TaskLeaseProofs!TypeCorrect`, `Invariance` | `TypeOK`, `IInv` | |
| `ActiveRowsAreSweepable`, `NoLeaseIsLeftBehind`, `LossIsReal`, `ClaimIsExclusive` | the named invariants of `TaskLease` | |
| `LostLeaseIsFinal` | the action property `LostLeaseStaysLost` | |
| `TaskQueueProofs!TypeCorrect`, `AttemptsAreBounded` | `TypeOK`, `DeliveriesBounded` | |
| `ExclusiveInvariance`, `ConsumersAreExclusive`, `QueuedItemsAreClaimable` | `ExclusiveInv` and its consequences | `Undisturbed`: live consumers keep their leases, nothing is resumed |
| `QueueImplementsDelivery` | the queue refines `LeasedDelivery` | `Undisturbed` |
| `ApprovalProofs!TypeCorrect`, `ApprovalIsRequired` | `TypeOK`, `NoWorkUnapproved` | |
| `OutcomeAgreesWithDecisions` | `CompletedIsApproved` | `OneAtATime`: one request at a time |
| `SoleGateIsDecidable` | `WaitingStepIsDecidable` | `OneGate`: one gate, no cancel |
| `DagRunProofs!TypeCorrect`, `Invariance` | `TypeOK`, `IInv` | finitely many nodes, any templates |
| `NodesWaitForDependencies`, `FailuresStopTheRun` | `DependenciesFirst`, `FailureStopsLaterLayers` | the same |
| `RefusalsAreRight`, `LayersAreEarliest` | `RefusedIsUnsortable`, `LayersAreTight` | the same |
| `CompletedRunsRan` | `CompletedRunRanEveryNode` | the same |
| `CollaborationProofs!TypeCorrect`, `RunInvariant` | `TypeOK`, `RunInv` and `DoneInv` | any numbers of hops, sub-tasks, agents, slots, rounds and faults |
| `AnswersReachNext`, `FailuresKeptApart`, `FaultIsSurvived` | `AnswersAreHandedOver`, `FailuresStayApart`, `OneFaultIsSurvived` | the same |
| `NodeDispatchProofs!TypeCorrect`, `EndIsSettled`, `CancelHeard` | `TypeOK`, `EndedDispatchIsSettled`, `CancelIsHeard` | any nodes, tasks, dispatches and requests |
| `AdmissionProofs!TypeCorrect`, `CapBounded`, `NobodyForgotten`, `RateBounded` | `TypeOK`, `CapIsBounded`, `NobodyIsForgotten`, `RateIsBounded` | finitely many requests, any messages, limits and minutes |
| `ConsoleProofs!TypeCorrect` | `TypeOK` of the four | the sets below |
| `PeopleInvariant`, `WorkspaceKeepsOwner`, `LogoutEndsToken` | `MembershipSound`, `LogoutIsFinal` | any users, workspaces, codes, tokens and requests |
| `ModelsInvariant`, `UsedModelStays`, `CallKeepsToChain` | `DeletedModelIsUnused`, `CallFollowsChain` | finitely many models, any references among them |
| `EventsInvariant`, `ClientsFollowTask` | `ClientsFollow` | finitely many changes of the task, any instances and clients |
| `PluginsInvariant`, `RequestsArrive` | `RequestsReachTheirPlugin` | any plugins, tools, calls and attempts |

*TaskLease.*  That an active row has a lease is not inductive without knowing
that the columns are written together (`TypeOK`), and that nobody returns holding
the row needs what is true in the middle of a settlement: an executor which has
written its terminal status holds nothing (`SettledHoldsNothing`).  That
`cancel_event` tells the truth needs that a renewer runs after the claim
and extends its own token (`RenewerFollowsClaim`); that the claim is exclusive
needs that an orchestrator at work implies a row that has left PENDING
(`WorkedRowIsTaken`).  The four together are `IInv`.

*TaskQueue.*  `Sound` (columns agree, attempts bounded) is inductive as it is.  When
leases run out under live consumers, several work on one task; that they are no more
than `max_attempts`, and as many again for each resume, needs `WorkersCounted`: each was
handed the item by an attempt that is on it, or that a resume has deleted, and a resume
pays for its deletion before it comes to it (`Rounds`).
Exclusiveness needs `ConsumersBear` (a busy consumer's token is on the item, and
the lease is live) and `OnlyNewIsEnqueued` (an enqueue that is still to come finds
no item); both fail without `Undisturbed`, as the list above says.  The refinement
is proved from `ExclusiveInv`, one lemma for each kind of step.

*Approval.*  `GrantInv` relates steps and the executor's knowledge of them to the
history variable `granted`; a completed task implies an executor that has
returned, so that the row is not completed around a gate.  `DecidedOnce` adds
that a picked step is undecided and that what the executor has seen stays on the
step, which the second of two concurrent requests breaks.  `Suspended` says
that a polling executor's task is suspended while it has a lease and that a
decided step waits no more.

*DagRun.*  The counters of the sort are shown to count the dependencies still to
be placed (`CountersCount`, with the library's facts on cardinalities), from which
the current layer is what waits for none of them; what is left when it is empty
therefore waits for itself.  `EngineInv` says that layers before `at` have
succeeded and layers behind it are idle; with the sort, that gives the order of
nodes.  `OutcomeInv` follows every "completed" on its way from the engine through
the task's row and a sweep's session to the run's row: proving it for the run
alone fails, since the sweep writes what it read before.

*Collaboration.*  `Stage(t)`, where a turn is by the place the run has come to, is
what the rows are compared with.  `StepsInv` says that a turn has one step, with the
status of its stage, and that the steps of tools are over but for the last: the
coroutines of sub-tasks open theirs in an order of their own, so that "the turn's
step" has no meaning before that.  `SaidInv` says that what is handed on is what is
posted, in order; it has three cases, since relay posts before it hands on and a
manager after it (`Behind`, `Ahead`).  `DoneInv` keeps both to the end.  For failures,
`HopInv` says that `hop_ctx` is the sub-task of the turn or the first of those side by
side that failed, `AgentsInv` that one agent at most is at work, and `AttributionInv`
and `SiblingsInv` follow the handlers from one write to the next.  `HopInv` is false
behind the last sub-task, which is the finding above, and `AttributionInv` ends there.
That one fault is survived needs that the fallback session is used for a reason and
that whoever posts the last message has written the task's status (`FaultInv`).

*NodeDispatch.*  A dispatch closes its step, settles its task, gives its node back:
`Settled` needs that nobody reopens a settled step or task, in particular that the
sweep of start-up and the queue's worker only write ends.  That a request is heard
needs that the entry of the only dispatch of a task is its own until somebody takes it
out and sets the event in one step (`Heard`), and that a dispatch has no result before
it has left its poll loop.

*Admission.*  `Room` says that a message that has counted, and that no other has
overtaken, still finds less than the limit: a store makes the requests that have counted
members of `raced`.  `InHands` is
`NobodyIsForgotten` with what a coroutine still has before it.  `RateInv` relates what
was let through to what is left to see of it: the part `p` of Redis's count that is of
this minute, the entries of the process's list behind the `k`-th, and a full limit for
each counter that is gone.  Neither `p` nor `k` is a variable (a request over the limit is
counted too, and the list keeps entries of the last minute), so that the invariant
says that they exist, and each step gives the next ones.

*Console: people.*  A workspace keeps an owner since a removal was begun on someone who
is none: `OwnerInv` says that a governed workspace, one with an owner whom no removal
under way is about, stays governed, and that whoever holds an invitation or a
registration holds it of a governed one.  `CodeInv` says that at most one join holds a
code that is not raced, and `LogoutInv` that the row of a token that was logged out does
not come back to life.  *Models.*  `DeleteInv` is `DeletedModelIsUnused` with the
deletes that have read already.  `CallInv` says that each model of a chain is the
fallback of the one before; that no chain has a model twice needs an argument of its
own: a walk that came twice to one would go round for more steps than there are models, and
the model takes only walks that end (`_fallback_chain` refuses the others).  *Events.*  `ToldInv` says that an event is in an inbox, at
a client or on its way once at most; `CurrentInv` that a client outside `doubt` shows the row's version, or has
nothing but that version on its way to it, or a change is committed and about to be published.  *Plugins.*  `JobInv` says that the
tools of a task are those of the manifests it read, one plugin for each name, and
that the plugins still to be told and those told already are the ones that were enabled
at the announcement; `TriesInv` that a request under way has had only errors, as many as
it counts, and that every other call is concluded.

Some of what is proved is in no run: `IInv` and `ExclusiveInv`, `LostMeansLost`,
`QueuedItemHasBudget`, `LayersAreTight`, the type invariants of `TaskQueue`, `Approval`
and `DagRun`, and the invariants of the paragraphs above that are not properties.  Those
of the last four modules were checked by TLC on the instances of section 3 before
they were proved.

Every safety invariant and action property of the runs is the statement of a theorem,
and so is the refinement.  Model-checked only is what the prover cannot treat: liveness
(`RunningIsSettled`, `PendingTaskIsTaken`, `SuspensionEnds`, `RunIsSettled`, `RunEnds`,
`DispatchesEnd`, `OrphansAreFailed`), with the fairness of section 3.

Where the proofs are about data of any length (mentions that are made distinct, the
list of the limiter, a chain of fallbacks) the model says what the result is, as the
sequence of the members that remain in their order, in place of the loop that
computes it; the theorems about these need no induction over the loop.

## 5. Not modelled, and the plan

To prove next: of `TaskQueue`, which invariants survive resumes and lapsing leases
(what `ConsumersAreExclusive` says of the items that were not disturbed); a refinement
of `Approval` by a gate without rows and sessions; of `DagRun`, an abstract run
that completes nodes in any order their dependencies allow.

To model next: the composition of `TaskQueue` and `TaskLease`, with the task row of
the one as the row of the other in place of `Interfere`; the edit of a node's
columns while dispatches count on them; the authentication of a WebSocket.

Left out for good: presentation (front end), formatting, cryptography and
redaction, audit records and cost reports, seed data and migrations, single-row
reads and writes (conversations, audit, health), vendor SDK calls: none has a
protocol of its own.
