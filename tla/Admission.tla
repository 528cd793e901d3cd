------------------------------- MODULE Admission ------------------------------
(* From a request to a task that somebody runs: message_hub.py, quota_service.py. *)
(*                                                                           *)
(* A message and a POST of a task pass the workspace's quota: its row, which the *)
(* first to ask creates, the month's usage, and a rate limiter that counts in    *)
(* Redis by the minute or, when Redis does not answer, in the process over the    *)
(* last minute. A message then counts the active tasks, finds whom it mentions,   *)
(* stores its task, puts it on the queue and, in the inline mode, starts it. Each  *)
(* of these is a transaction or a call of its own, between which other requests  *)
(* take theirs. The backend may stop at any time; its next start recovers, in the *)
(* inline mode, tasks that were left.                                          *)
(* Abstracted: texts, other workspaces, the amounts behind "exceeded", how a task  *)
(* runs (TaskLease, Collaboration), how a worker takes it (TaskQueue) and what a   *)
(* node does (NodeDispatch), a second backend.                                 *)
EXTENDS Integers, Sequences, FiniteSets, FiniteSetsExt, Functions

CONSTANTS
    Requests,        \* numbers: bound on the requests
    Agents, Nodes, Default,  \* of the workspace; the default agent, or NoAgent
    NoAgent,
    Messages,        \* the mentions of the messages tried
    MaxRelay, MaxRunning,    \* MAX_RELAY_AGENTS, MAX_RUNNING_TASKS_PER_WORKSPACE
    Limits, FirstLimit,      \* rate limits tried; that of a new row
    Minute,          \* moments of a minute
    MaxTime, MaxFaults       \* bounds: moments; stops and losses of Redis

ASSUME AdmissionAssumption ==
    /\ Requests \subseteq Nat /\ IsFiniteSet(Requests) /\ Default \in Agents \cup {NoAgent} /\ NoAgent \notin Agents
    /\ Agents \cap Nodes = {} /\ Messages \subseteq Seq(Agents \cup Nodes)
    /\ {MaxRelay, MaxRunning, Minute, FirstLimit} \subseteq Nat \ {0}
    /\ Limits \subseteq Nat /\ MaxTime \in Nat /\ MaxFaults \in Nat

VARIABLES
    mode,            \* task_execution_mode: "inline" or "queue"
    backend,         \* "up" or "down"
    now,
    redis,           \* does it answer, and the counter of this minute
    bucket,          \* _rate_limit_buckets: moments of the requests let through
    quota,           \* the workspace's row, or none
    request,
    task, leased,    \* tasks by their request; those with a lease that holds
    item,            \* tasks with a queued item
    attended,        \* tasks that a coroutine or the worker has
    tally,           \* history: what the limiter let through this minute
    raced,           \* history: messages that were overtaken since they counted
    crowded,         \* history: tasks of others that were stored above the limit
    direct, skipped, young, cut,   \* history: how a task may come to be left
    faults

limiter == <<now, redis, bucket, tally>>
tasks   == <<task, leased, item, attended>>
left    == <<direct, skipped, young, cut>>
vars    == <<mode, backend, limiter, quota, request, tasks, crowded, raced, left, faults>>
-----------------------------------------------------------------------------
NoRow == [row |-> FALSE, limit |-> 0]
Row(limit) == [row |-> TRUE, limit |-> limit]

Over == [at |-> "over"]

Active == {r \in Requests : task[r] \in {"pending", "running"}}
Running == {r \in Requests : task[r] = "running"}

\* Requests are numbered as they come, and served while the backend is up.
NextOne(r) == /\ backend = "up" /\ request[r].at = "none"
              /\ \A q \in Requests : q < r => request[q].at # "none"
At(r, phase) == backend = "up" /\ request[r].at = phase
Goes(r, st)  == request' = [request EXCEPT ![r] = st]
Then(r, phase) == Goes(r, [request[r] EXCEPT !.at = phase])

Init ==
    /\ mode \in {"inline", "queue"}
    /\ backend = "up"
    /\ now = 0
    /\ redis = [up |-> TRUE, count |-> 0] /\ bucket = <<>>
    /\ quota \in {NoRow} \cup {Row(limit) : limit \in Limits}
    /\ request = [r \in Requests |-> [at |-> "none"]]
    /\ task = [r \in Requests |-> "none"]
    /\ leased = {} /\ item = {} /\ attended = {}
    /\ tally = [passes |-> 0, top |-> quota.limit, counters |-> 1, local |-> FALSE]
    /\ crowded = {} /\ raced = {}
    /\ direct = {} /\ skipped = {} /\ young = {} /\ cut = {}
    /\ faults = 0
-----------------------------------------------------------------------------
(* Whom a message is for.                                                      *)

\* Mutant: an agent mentioned twice runs twice.
EveryMention(mentions) == {i \in DOMAIN mentions : mentions[i] \in Agents}

\* Where an agent is mentioned for the first time.
FirstMentions(mentions) ==
    {i \in DOMAIN mentions : mentions[i] \in Agents /\ \A j \in 1..(i - 1) : mentions[j] # mentions[i]}

\* The k-th of a set of positions.
Nth(positions, k) == CHOOSE i \in positions : Cardinality({j \in positions : j <= i}) = k

\* The agents of a relay, in the order of their first mention.
Relay(mentions) ==
    LET first == FirstMentions(mentions)
    IN  [k \in 1..Min({MaxRelay, Cardinality(first)}) |-> mentions[Nth(first, k)]]

\* A node that is mentioned first has the task alone; without a mention the
\* default agent has it; without a default agent the message is refused.
Route(mentions) ==
    IF mentions # <<>> /\ Head(mentions) \in Nodes THEN <<Head(mentions)>>
    ELSE IF Relay(mentions) # <<>> THEN Relay(mentions)
    ELSE IF Default # NoAgent THEN <<Default>> ELSE <<>>

ForNode(to) == to # <<>> /\ Head(to) \in Nodes
-----------------------------------------------------------------------------
(* The quota.                                                                  *)

Arrive(r, kind, to) ==
    /\ NextOne(r)
    /\ Goes(r, [at |-> "asks", kind |-> kind, to |-> to])
    /\ UNCHANGED <<mode, backend, limiter, quota, tasks, crowded, raced, left, faults>>

BeginMessage(r) == \E m \in Messages : Arrive(r, "message", Route(m))
BeginTask(r) == Arrive(r, "task", <<>>)
BeginUpdate(r) == Arrive(r, "update", <<>>)

\* A row that is there.
ReadQuota(r) ==
    /\ At(r, "asks")
    /\ IF ~quota.row THEN Then(r, "creates")
       ELSE IF request[r].kind = "update" THEN Then(r, "sets")
       ELSE Goes(r, [at |-> "limits", kind |-> request[r].kind, to |-> request[r].to,
                     limit |-> quota.limit])
    /\ UNCHANGED <<mode, backend, limiter, quota, tasks, crowded, raced, left, faults>>

\* One of two that both found no row meets the unique constraint.
CreateQuota(r) ==
    /\ At(r, "creates")
    /\ IF quota.row THEN Goes(r, Over) /\ UNCHANGED <<quota, tally>>
       ELSE /\ quota' = Row(FirstLimit)
            /\ tally' = [tally EXCEPT !.top = Max({@, FirstLimit})]
            /\ Then(r, "asks")
    /\ UNCHANGED <<mode, backend, now, redis, bucket, tasks, crowded, raced, left, faults>>

UpdateQuota(r) ==
    /\ At(r, "sets")
    /\ \E limit \in Limits :
          /\ quota' = Row(limit)
          /\ tally' = [tally EXCEPT !.top = Max({@, limit})]
    /\ Goes(r, Over)
    /\ UNCHANGED <<mode, backend, now, redis, bucket, tasks, crowded, raced, left, faults>>

\* Blocked, by the limiter or by a month's usage above a hard limit; or on to count
\* the active tasks, which a POST does not.
Passes(r, allowed) ==
    \/ Goes(r, Over)
    \/ allowed /\ Goes(r, [at |-> IF request[r].kind = "task" THEN "stores" ELSE "counts",
                            kind |-> request[r].kind, to |-> request[r].to])

Unlimited(r) ==
    /\ At(r, "limits") /\ request[r].limit <= 0
    /\ Passes(r, TRUE)
    /\ UNCHANGED <<mode, backend, limiter, quota, tasks, crowded, raced, left, faults>>

\* Mutant: as many as the limit and one more.
WithinByOne(count, limit) == count <= limit + 1

Within(count, limit) == count <= limit

\* INCR, and its answer.
LimitByRedis(r) ==
    /\ At(r, "limits") /\ request[r].limit > 0 /\ redis.up
    /\ redis' = [redis EXCEPT !.count = @ + 1]
    /\ LET allowed == Within(redis'.count, request[r].limit) IN
          /\ tally' = [tally EXCEPT !.passes = @ + (IF allowed THEN 1 ELSE 0)]
          /\ Passes(r, allowed)
    /\ UNCHANGED <<mode, backend, now, bucket, quota, tasks, crowded, raced, left, faults>>

\* Entries older than a minute are taken from the front of the deque.
Recent ==
    LET cutoff == now - Minute
        stale == CHOOSE k \in 0..Len(bucket) :
                    /\ \A i \in 1..k : bucket[i] < cutoff
                    /\ k < Len(bucket) => bucket[k + 1] >= cutoff
    IN  SubSeq(bucket, stale + 1, Len(bucket))

\* Redis is away, or counted and the answer was lost: the last minute of this process.
LimitByMemory(r) ==
    LET allowed == Len(Recent) < request[r].limit IN
    /\ At(r, "limits") /\ request[r].limit > 0
    /\ \/ ~redis.up /\ UNCHANGED <<redis, faults>>
       \/ /\ redis.up /\ faults < MaxFaults /\ faults' = faults + 1
          /\ redis' = [redis EXCEPT !.count = @ + 1]
    /\ bucket' = IF allowed THEN Append(Recent, now) ELSE Recent
    /\ tally' = [tally EXCEPT !.passes = @ + (IF allowed THEN 1 ELSE 0),
                              !.counters = @ + (IF tally.local THEN 0 ELSE 1),
                              !.local = TRUE]
    /\ Passes(r, allowed)
    /\ UNCHANGED <<mode, backend, now, quota, tasks, crowded, raced, left>>
-----------------------------------------------------------------------------
(* The task.                                                                   *)

\* Mutant: one too many.
FullOverOne == Cardinality(Active) > MaxRunning

Full == Cardinality(Active) >= MaxRunning

CountActive(r) ==
    /\ At(r, "counts")
    /\ IF Full \/ request[r].to = <<>> THEN Goes(r, Over) ELSE Then(r, "stores")
    /\ UNCHANGED <<mode, backend, limiter, quota, tasks, crowded, raced, left, faults>>

\* The messages that have counted and not stored yet.
Overtaken(r) == {q \in Requests \ {r} : request[q].at = "stores" /\ request[q].kind = "message"}

StoreTask(r) ==
    /\ At(r, "stores")
    /\ task' = [task EXCEPT ![r] = "pending"]
    /\ raced' = (raced \cup Overtaken(r)) \ {r}
    /\ IF request[r].kind = "task"
       THEN direct' = direct \cup {r} /\ Goes(r, Over) /\ UNCHANGED crowded
       ELSE /\ crowded' = IF Cardinality(Active) >= MaxRunning /\ r \notin raced THEN crowded \cup {r} ELSE crowded
            /\ Then(r, "enqueues")
            /\ UNCHANGED direct
    /\ UNCHANGED <<mode, backend, limiter, quota, leased, item, attended, skipped, young, cut, faults>>

Enqueue(r) ==
    /\ At(r, "enqueues")
    /\ item' = item \cup {r}
    /\ Then(r, "dispatches")
    /\ UNCHANGED <<mode, backend, limiter, quota, task, leased, attended, crowded, raced, left, faults>>

\* After the broadcasts: the orchestrator's coroutine in the inline mode, a node's
\* in both. (What a node does to a task that the worker has ended: NodeDispatch.)
Dispatch(r) ==
    /\ At(r, "dispatches")
    /\ attended' = IF mode = "inline" \/ ForNode(request[r].to) THEN attended \cup ({r} \cap Active) ELSE attended
    /\ Goes(r, Over)
    /\ UNCHANGED <<mode, backend, limiter, quota, task, leased, item, crowded, raced, left, faults>>

\* The coroutine claims the task, or the worker its item and the task.
Run(r) ==
    /\ task[r] = "pending"
    /\ \/ mode = "inline" /\ r \in attended /\ UNCHANGED item
       \/ mode = "queue" /\ r \in item /\ item' = item \ {r}
    /\ task' = [task EXCEPT ![r] = "running"]
    /\ leased' = leased \cup {r} /\ attended' = attended \cup {r}
    /\ UNCHANGED <<mode, backend, limiter, quota, request, crowded, raced, left, faults>>

\* It ends; a node's ends from pending.
Finish(r) ==
    /\ r \in attended /\ r \in Active
    /\ task' = [task EXCEPT ![r] = "ended"]
    /\ leased' = leased \ {r} /\ attended' = attended \ {r} /\ item' = item \ {r}
    /\ UNCHANGED <<mode, backend, limiter, quota, request, crowded, raced, left, faults>>
-----------------------------------------------------------------------------
(* Stops and starts.                                                           *)

\* What the backend ran is gone: in the queue mode nodes' coroutines only.
Stop ==
    /\ backend = "up" /\ faults < MaxFaults
    /\ backend' = "down" /\ faults' = faults + 1
    /\ request' = [r \in Requests |-> IF request[r].at = "none" THEN request[r] ELSE Over]
    /\ cut' = cut \cup {r \in Requests : request[r].at = "enqueues"}
    /\ attended' = IF mode = "inline" THEN {} ELSE attended \cap Running
    /\ bucket' = <<>> /\ tally' = [tally EXCEPT !.local = FALSE]
    /\ raced' = {}
    /\ UNCHANGED <<mode, now, redis, quota, task, leased, item, crowded, direct, skipped, young>>

\* Nobody renews the lease of a task that nobody runs.
LoseLease(r) ==
    /\ r \in leased \ attended
    /\ leased' = leased \ {r}
    /\ UNCHANGED <<mode, backend, limiter, quota, request, task, item, attended, crowded, raced, left, faults>>

\* Mutant: running tasks stay as they are.
NoneExpired == {}

Expired == Running \ leased

\* recover_unfinished_tasks: the pending tasks, then the running ones without a lease,
\* by their ids, as many as the limit leaves beside those that still count as running.
Waiting == (Active \ Running) \cup Expired

Before(q, r) == IF q \in Running THEN r \in Running /\ q < r
                                 ELSE r \in Running \/ q < r

Taken == {r \in Waiting : Cardinality({q \in Waiting : Before(q, r)})
                            < MaxRunning - Cardinality(Running \ Expired)}

Start ==
    /\ backend = "down" /\ backend' = "up"
    /\ IF mode = "queue" THEN UNCHANGED <<task, attended, skipped, young>>
       ELSE /\ task' = [r \in Requests |-> IF r \in Expired THEN "pending" ELSE task[r]]
            /\ attended' = Taken
            /\ skipped' = Waiting \ Taken
            /\ young' = Running \cap leased
    /\ UNCHANGED <<mode, limiter, quota, request, leased, item, crowded, raced, direct, cut, faults>>

LoseRedis ==
    /\ redis.up /\ faults < MaxFaults /\ faults' = faults + 1
    /\ redis' = [redis EXCEPT !.up = FALSE]
    /\ UNCHANGED <<mode, backend, now, bucket, tally, quota, request, tasks, crowded, raced, left>>

\* With its counters, or without.
RedisReturns ==
    /\ ~redis.up
    /\ \/ redis' = [redis EXCEPT !.up = TRUE] /\ UNCHANGED tally
       \/ /\ redis' = [up |-> TRUE, count |-> 0]
          /\ tally' = [tally EXCEPT !.counters = @ + 1]
    /\ UNCHANGED <<mode, backend, now, bucket, quota, request, tasks, crowded, raced, left, faults>>

\* The next minute has a key of its own; limits that were read stay in use.
Tick ==
    LET held == {request[r].limit : r \in {q \in Requests : request[q].at = "limits"}} IN
    /\ now < MaxTime /\ now' = now + 1
    /\ IF now' % Minute # 0 THEN UNCHANGED <<redis, tally>>
       ELSE /\ redis' = [redis EXCEPT !.count = 0]
            /\ tally' = [passes |-> 0, top |-> Max(held \cup {quota.limit}),
                         counters |-> 1, local |-> FALSE]
    /\ UNCHANGED <<mode, backend, bucket, quota, request, tasks, crowded, raced, left, faults>>
-----------------------------------------------------------------------------
Begin(r) == BeginMessage(r) \/ BeginTask(r) \/ BeginUpdate(r)

Serve(r) ==
    \/ ReadQuota(r) \/ CreateQuota(r) \/ UpdateQuota(r)
    \/ Unlimited(r) \/ LimitByRedis(r) \/ LimitByMemory(r)
    \/ CountActive(r) \/ StoreTask(r) \/ Enqueue(r) \/ Dispatch(r)

Execute(r) == Run(r) \/ Finish(r) \/ LoseLease(r)

Next ==
    \/ \E r \in Requests : Begin(r) \/ Serve(r) \/ Execute(r)
    \/ Stop \/ Start \/ LoseRedis \/ RedisReturns \/ Tick

Spec == Init /\ [][Next]_vars
-----------------------------------------------------------------------------
(* Properties.                                                                 *)

Targets == {Route(m) : m \in Messages} \cup {<<>>}
Kinds   == {"message", "task", "update"}

\* What a request knows on its way.
Journey ==
    [at : {"none", "over"}]
    \cup [at : {"asks", "creates", "sets", "counts", "stores", "enqueues", "dispatches"},
          kind : Kinds, to : Targets]
    \cup [at : {"limits"}, kind : Kinds, to : Targets, limit : Nat]

\* Types; a relay has at most MaxRelay agents, each once.
TypeOK ==
    /\ mode \in {"inline", "queue"} /\ backend \in {"up", "down"}
    /\ now \in 0..MaxTime /\ redis \in [up : BOOLEAN, count : Nat]
    /\ bucket \in Seq(0..now)
    /\ quota \in [row : BOOLEAN, limit : Nat]
    /\ request \in [Requests -> Journey]
    /\ \A to \in Targets :
          /\ Len(to) <= MaxRelay /\ IsInjective(to)
          /\ \A i \in DOMAIN to : to[i] \in (IF Len(to) = 1 THEN Agents \cup Nodes ELSE Agents)
    /\ task \in [Requests -> {"none", "pending", "running", "ended"}]
    /\ leased \subseteq Running /\ item \subseteq Requests /\ attended \subseteq Active
    /\ tally \in [passes : Nat, top : Nat, counters : Nat, local : BOOLEAN]
    /\ crowded \cup raced \cup direct \cup skipped \cup young \cup cut \subseteq Requests
    /\ faults \in 0..MaxFaults

\* In any minute the limiter lets through no more than the highest limit in use for
\* each counter it had: Redis's, another after a loss of Redis's data, and one for
\* every life of the process in which Redis failed to answer (quota_service.py).
RateIsBounded == tally.passes <= tally.top * tally.counters

\* A message's task is stored above the limit of active tasks only if another task
\* was stored after the message had counted them (receive_user_message).
CapIsBounded == crowded = {}

Unattended(r) ==
    /\ request[r].at = "over" /\ r \in Active \ attended
    /\ ~(mode = "queue" /\ task[r] = "pending" /\ r \in item)

\* While the backend is up, a task that is stored is in somebody's hands, unless it
\* was posted without being dispatched; or, with a queue, the backend stopped
\* before it was put there; or, without one, the last start had no room for it,
\* or found the lease of its previous executor still valid.
NobodyIsForgotten ==
    backend = "up" => \A r \in Requests : Unattended(r) =>
        \/ r \in direct
        \/ mode = "queue" /\ r \in cut
        \/ mode = "inline" /\ r \in skipped \cup young
=============================================================================
