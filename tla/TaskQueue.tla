------------------------------- MODULE TaskQueue -------------------------------
(***************************************************************************)
(* The persistent task queue (services/task_service.py), the workers that  *)
(* consume it (worker.py), and the handlers that put tasks into it.        *)
(*                                                                         *)
(* Each database transaction is one action; TaskService.fail and the       *)
(* resume handler, which read in one statement and write in another, are   *)
(* two or more.  The task row appears by its status only: run_task here    *)
(* claims it and writes a terminal status, and every other writer of the   *)
(* row (TaskLease.tla) is the action Interfere.                            *)
(***************************************************************************)
EXTENDS Integers, FiniteSets

CONSTANTS
    Tasks,
    Consumers,    \* consumer coroutines of worker processes
    NoToken,      \* NULL in the lease_token column
    NoTask,       \* a consumer without an item
    MaxAttempts,  \* TaskQueueItem.max_attempts
    Interference, \* statuses that other writers of a task row may set
    CanLapse,     \* may the lease of a live consumer run out?
    MaxFaults,    \* bound: crashes and unexpected exceptions
    MaxResumes    \* bound: calls of resume-from-step

TaskStatus == {"pending", "running", "waiting_approval",
               "completed", "failed", "cancelled"}
Terminal   == {"completed", "dead"}   \* QUEUE_TERMINAL_STATUSES

ASSUME QueueAssumption ==
    /\ NoToken \notin Consumers
    /\ NoTask \notin Tasks
    /\ MaxAttempts \in Nat \ {0}
    /\ Interference \subseteq TaskStatus
    /\ CanLapse \in BOOLEAN
    /\ MaxFaults \in Nat /\ MaxResumes \in Nat

VARIABLES
    task,       \* Task.status, or "absent"
    state,      \* TaskQueueItem.status of each task's item, or "absent"
    attempts,   \* its attempt_count
    token,      \* its lease_token: the consumer whose claim wrote it
    lapsed,     \* has its lease_expires_at passed?
    delayed,    \* is its available_at still to come?
    phase,      \* where each consumer is in _consume_once
    job,        \* the task whose item it has leased
    candidates, \* what its claim_next has selected and not yet tried
    owed,       \* what an API handler has still to do for the task
    faults, resumes

item == <<state, attempts, token, lapsed, delayed>>
vars == <<task, item, phase, job, candidates, owed, faults, resumes>>

Busy == {"leased", "running", "finished", "completed", "failed", "raised",
         "dying", "requeueing"}

\* lease_token and lease_expires_at are set on leased items exactly.
ItemsOK ==
    /\ state \in [Tasks -> {"absent", "queued", "leased"} \cup Terminal]
    /\ attempts \in [Tasks -> Nat]
    /\ token \in [Tasks -> Consumers \cup {NoToken}]
    /\ lapsed \in [Tasks -> BOOLEAN]
    /\ delayed \in [Tasks -> BOOLEAN]
    /\ \A t \in Tasks :
          /\ state[t] = "leased" <=> token[t] # NoToken
          /\ lapsed[t] => state[t] = "leased"

\* The types, and the agreement of the lease columns.
TypeOK ==
    /\ ItemsOK
    /\ task \in [Tasks -> TaskStatus \cup {"absent"}]
    /\ phase \in [Consumers -> {"idle", "selecting"} \cup Busy]
    /\ job \in [Consumers -> Tasks \cup {NoTask}]
    /\ candidates \in [Consumers -> SUBSET Tasks]
    /\ owed \in [Tasks -> {"nothing", "purge", "enqueue"}]
    /\ faults \in 0..MaxFaults
    /\ resumes \in 0..MaxResumes
    /\ \A c \in Consumers : phase[c] \in Busy <=> job[c] # NoTask

Init ==
    /\ task = [t \in Tasks |-> "absent"]
    /\ state = [t \in Tasks |-> "absent"]
    /\ attempts = [t \in Tasks |-> 0]
    /\ token = [t \in Tasks |-> NoToken]
    /\ lapsed = [t \in Tasks |-> FALSE]
    /\ delayed = [t \in Tasks |-> FALSE]
    /\ phase = [c \in Consumers |-> "idle"]
    /\ job = [c \in Consumers |-> NoTask]
    /\ candidates = [c \in Consumers |-> {}]
    /\ owed = [t \in Tasks |-> "nothing"]
    /\ faults = 0 /\ resumes = 0

-----------------------------------------------------------------------------
(* Helpers                                                                 *)

Goto(c, p) == phase' = [phase EXCEPT ![c] = p]

\* The coroutine ends, and with it its renewer.
Leave(c) == Goto(c, "idle") /\ job' = [job EXCEPT ![c] = NoTask]

SetTask(t, st) == task' = [task EXCEPT ![t] = st]

\* Every change of an item's status but the claim's clears its lease.
Unlease(t, st, late) ==
    /\ state' = [state EXCEPT ![t] = st]
    /\ token' = [token EXCEPT ![t] = NoToken]
    /\ lapsed' = [lapsed EXCEPT ![t] = FALSE]
    /\ delayed' = [delayed EXCEPT ![t] = late]
    /\ UNCHANGED attempts

\* The condition that guards complete, fail and renew.
Bears(c, t) == state[t] = "leased" /\ token[t] = c

Alive(c, t) == Bears(c, t) /\ job[c] = t

Free(t) == state[t] = "queued" \/ lapsed[t]

-----------------------------------------------------------------------------
(* The API: submit, resume                                                 *)

\* A handler commits the task and goes on to enqueue it.
Submit(t) ==
    /\ task[t] = "absent"
    /\ SetTask(t, "pending")
    /\ owed' = [owed EXCEPT ![t] = "enqueue"]
    /\ UNCHANGED <<item, phase, job, candidates, faults, resumes>>

\* TaskService.enqueue: a settled item is left as it is.
Enqueue(t) ==
    /\ owed[t] = "enqueue"
    /\ owed' = [owed EXCEPT ![t] = "nothing"]
    /\ IF state[t] \in Terminal
         THEN UNCHANGED item
         ELSE Unlease(t, "queued", FALSE)
    /\ UNCHANGED <<task, phase, job, candidates, faults, resumes>>

\* resume_task_from_step puts a failed or cancelled task back to PENDING, ...
Resume(t) ==
    /\ task[t] \in {"failed", "cancelled"} /\ owed[t] = "nothing"
    /\ resumes < MaxResumes /\ resumes' = resumes + 1
    /\ SetTask(t, "pending")
    /\ owed' = [owed EXCEPT ![t] = "purge"]
    /\ UNCHANGED <<item, phase, job, candidates, faults>>

\* ... deletes its settled item, and enqueues it anew.  Whoever still works
\* on the deleted row finds no row of that id any more.
Purge(t) ==
    /\ owed[t] = "purge"
    /\ owed' = [owed EXCEPT ![t] = "enqueue"]
    /\ IF state[t] \in Terminal
         THEN LET late == {c \in Consumers : /\ job[c] = t
                                             /\ phase[c] \in {"dying", "requeueing"}}
              IN /\ state' = [state EXCEPT ![t] = "absent"]
                 /\ attempts' = [attempts EXCEPT ![t] = 0]
                 /\ delayed' = [delayed EXCEPT ![t] = FALSE]
                 /\ UNCHANGED <<token, lapsed>>
                 /\ phase' = [c \in Consumers |->
                                 IF c \in late THEN "idle" ELSE phase[c]]
                 /\ job' = [c \in Consumers |->
                                 IF c \in late THEN NoTask ELSE job[c]]
                 /\ candidates' = [c \in Consumers |-> candidates[c] \ {t}]
         ELSE UNCHANGED <<item, phase, job, candidates>>
    /\ UNCHANGED <<task, faults, resumes>>

\* The API process dies between the commit and the enqueue.
ApiCrash(t) ==
    /\ owed[t] # "nothing"
    /\ faults < MaxFaults /\ faults' = faults + 1
    /\ owed' = [owed EXCEPT ![t] = "nothing"]
    /\ UNCHANGED <<task, item, phase, job, candidates, resumes>>

\* Another writer of the row: cancel, the lease sweep, an approval, an inline
\* run of the task, the reset of an expired claim.
Interfere(t) ==
    /\ task[t] # "absent"
    /\ \E st \in Interference : SetTask(t, st)
    /\ UNCHANGED <<item, phase, job, candidates, owed, faults, resumes>>

-----------------------------------------------------------------------------
(* claim_next                                                              *)

Claimable(t) ==
    /\ task[t] = "pending"
    /\ attempts[t] < MaxAttempts
    /\ ~delayed[t]
    /\ Free(t)

Select(c) ==
    /\ phase[c] = "idle"
    /\ \E t \in Tasks : Claimable(t)
    /\ candidates' = [candidates EXCEPT ![c] = {t \in Tasks : Claimable(t)}]
    /\ Goto(c, "selecting")
    /\ UNCHANGED <<task, item, job, owed, faults, resumes>>

\* Mutant: the attempts are not compared again.
MatchesSpent(t) == Free(t)

\* Mutant: nor is the lease.
MatchesLeased(t) == state[t] \in {"queued", "leased"}
                        /\ attempts[t] < MaxAttempts

\* The compare-and-set on one candidate: the task's status and the delay are
\* not looked at again, the rest is.
Matches(t) == attempts[t] < MaxAttempts /\ Free(t)

Lease(c, t) ==
    /\ phase[c] = "selecting" /\ t \in candidates[c]
    /\ Matches(t)
    /\ state' = [state EXCEPT ![t] = "leased"]
    /\ token' = [token EXCEPT ![t] = c]
    /\ attempts' = [attempts EXCEPT ![t] = @ + 1]
    /\ lapsed' = [lapsed EXCEPT ![t] = FALSE]
    /\ Goto(c, "leased")
    /\ job' = [job EXCEPT ![c] = t]
    /\ candidates' = [candidates EXCEPT ![c] = {}]
    /\ UNCHANGED <<task, delayed, owed, faults, resumes>>

Miss(c, t) ==
    /\ phase[c] = "selecting" /\ t \in candidates[c]
    /\ ~Matches(t)
    /\ candidates' = [candidates EXCEPT ![c] = @ \ {t}]
    /\ UNCHANGED <<task, item, phase, job, owed, faults, resumes>>

\* No candidate is left.
GiveUp(c) ==
    /\ phase[c] = "selecting" /\ candidates[c] = {}
    /\ Goto(c, "idle")
    /\ UNCHANGED <<task, item, job, candidates, owed, faults, resumes>>

-----------------------------------------------------------------------------
(* run_task, called by _consume_once                                       *)

Start(c) ==
    /\ phase[c] = "leased"
    /\ IF task[job[c]] = "pending"
         THEN SetTask(job[c], "running") /\ Goto(c, "running")
         ELSE UNCHANGED task /\ Goto(c, "raised")
    /\ UNCHANGED <<item, job, candidates, owed, faults, resumes>>

\* It writes COMPLETED or FAILED; a late exception writes FAILED over either.
Finish(c) ==
    /\ \/ phase[c] = "running" /\ \E st \in {"completed", "failed"} :
                                      SetTask(job[c], st)
       \/ phase[c] = "finished" /\ SetTask(job[c], "failed")
    /\ Goto(c, "finished")
    /\ UNCHANGED <<item, job, candidates, owed, faults, resumes>>

\* It returns the row as it stands: after a lost task lease, whatever that is.
Return(c) ==
    /\ phase[c] \in {"running", "finished"}
    /\ Goto(c, IF task[job[c]] = "completed" THEN "completed" ELSE "failed")
    /\ UNCHANGED <<task, item, job, candidates, owed, faults, resumes>>

\* Any exception inside the try block.
Trip(c) ==
    /\ phase[c] \in {"leased", "running", "finished", "completed", "failed"}
    /\ faults < MaxFaults /\ faults' = faults + 1
    /\ Goto(c, "raised")
    /\ UNCHANGED <<task, item, job, candidates, owed, resumes>>

-----------------------------------------------------------------------------
(* Settling the item                                                       *)

Complete(c) ==
    /\ phase[c] = "completed"
    /\ IF Bears(c, job[c])
         THEN Unlease(job[c], "completed", FALSE)
         ELSE UNCHANGED item
    /\ Leave(c)
    /\ UNCHANGED <<task, candidates, owed, faults, resumes>>

\* Mutant: every failure is final.
FailReadFinal(c) ==
    /\ phase[c] \in {"failed", "raised"}
    /\ IF Bears(c, job[c]) THEN Goto(c, "dying") /\ UNCHANGED job ELSE Leave(c)
    /\ UNCHANGED <<task, item, candidates, owed, faults, resumes>>

\* fail: the item is read, its token compared, and its fate decided, ...
FailRead(c) ==
    /\ phase[c] \in {"failed", "raised"}
    /\ IF Bears(c, job[c])
         THEN /\ Goto(c, IF phase[c] = "failed" \/ attempts[job[c]] >= MaxAttempts
                           THEN "dying" ELSE "requeueing")
              /\ UNCHANGED job
         ELSE Leave(c)
    /\ UNCHANGED <<task, item, candidates, owed, faults, resumes>>

\* ... and then written by primary key.
FailWrite(c) ==
    /\ \/ phase[c] = "dying" /\ Unlease(job[c], "dead", FALSE)
       \/ phase[c] = "requeueing" /\ Unlease(job[c], "queued", TRUE)
    /\ Leave(c)
    /\ UNCHANGED <<task, candidates, owed, faults, resumes>>

-----------------------------------------------------------------------------
(* Leases, time and crashes                                                *)

\* The renewer extends a lease that carries its token, run out or not.
Renew(c) ==
    /\ job[c] # NoTask /\ Bears(c, job[c]) /\ lapsed[job[c]]
    /\ lapsed' = [lapsed EXCEPT ![job[c]] = FALSE]
    /\ UNCHANGED <<task, state, attempts, token, delayed, phase, job,
                   candidates, owed, faults, resumes>>

Lapse(t) ==
    /\ state[t] = "leased" /\ ~lapsed[t]
    /\ CanLapse \/ \A c \in Consumers : ~Alive(c, t)
    /\ lapsed' = [lapsed EXCEPT ![t] = TRUE]
    /\ UNCHANGED <<task, state, attempts, token, delayed, phase, job,
                   candidates, owed, faults, resumes>>

\* The retry delay passes.
Tick(t) ==
    /\ delayed[t]
    /\ delayed' = [delayed EXCEPT ![t] = FALSE]
    /\ UNCHANGED <<task, state, attempts, token, lapsed, phase, job,
                   candidates, owed, faults, resumes>>

\* Mutant: the expiry is not compared.
RecoverableAlive(t) == state[t] = "leased" /\ attempts[t] < MaxAttempts

Recoverable(t) == lapsed[t] /\ attempts[t] < MaxAttempts

\* recover: one UPDATE over all items whose lease has run out.
Recover ==
    /\ \E t \in Tasks : Recoverable(t)
    /\ state' = [t \in Tasks |-> IF Recoverable(t) THEN "queued" ELSE state[t]]
    /\ token' = [t \in Tasks |-> IF Recoverable(t) THEN NoToken ELSE token[t]]
    /\ lapsed' = [t \in Tasks |-> lapsed[t] /\ ~Recoverable(t)]
    /\ UNCHANGED <<task, attempts, delayed, phase, job,
                   candidates, owed, faults, resumes>>

\* The worker process dies; the slot is taken by its successor's.
Crash(c) ==
    /\ phase[c] # "idle"
    /\ faults < MaxFaults /\ faults' = faults + 1
    /\ Leave(c)
    /\ candidates' = [candidates EXCEPT ![c] = {}]
    /\ UNCHANGED <<task, item, owed, resumes>>

-----------------------------------------------------------------------------

\* The consumer's own steps.
Consume(c) ==
    \/ Select(c) \/ GiveUp(c) \/ \E t \in Tasks : Lease(c, t) \/ Miss(c, t)
    \/ Start(c) \/ Finish(c) \/ Return(c)
    \/ Complete(c) \/ FailRead(c) \/ FailWrite(c)

Serve(t) == Submit(t) \/ Resume(t) \/ Purge(t) \/ Enqueue(t)

Next ==
    \/ \E c \in Consumers : Consume(c) \/ Trip(c) \/ Renew(c) \/ Crash(c)
    \/ \E t \in Tasks : \/ Serve(t) \/ ApiCrash(t) \/ Interfere(t)
                        \/ Lapse(t) \/ Tick(t)
    \/ Recover

Spec == Init /\ [][Next]_vars

\* Coroutines that can run do; a handler that has begun goes on; clocks
\* advance; every worker sweeps again and again.
Fairness ==
    /\ \A c \in Consumers : WF_vars(Consume(c))
    /\ \A t \in Tasks : WF_vars(Purge(t) \/ Enqueue(t)) /\ WF_vars(Lapse(t))
                        /\ WF_vars(Tick(t))
    /\ WF_vars(Recover)

FairSpec == Spec /\ Fairness

-----------------------------------------------------------------------------
(* Properties                                                              *)

AttemptsBounded == \A t \in Tasks : attempts[t] <= MaxAttempts

\* The consumers that work on a task, also those whose lease is another's by now.
Workers(t) == {c \in Consumers : job[c] = t}

\* No item is delivered more often than its max_attempts, whoever selected it
\* while it still had attempts left; and however often leases run out, no more
\* consumers are at work on a task than that, and as many again for each resume.
DeliveriesBounded ==
    /\ AttemptsBounded
    /\ \A t \in Tasks : Cardinality(Workers(t)) <= MaxAttempts * (resumes + 1)

\* As long as leases do not run out under live consumers and nothing is
\* resumed, a task is in the hands of one consumer.
OneConsumerPerTask ==
    \A c, d \in Consumers : job[c] # NoTask /\ job[c] = job[d] => c = d

\* A queued item can be claimed: it has attempts left.
QueuedItemHasBudget ==
    \A t \in Tasks : state[t] = "queued" => attempts[t] < MaxAttempts

\* The strengthening that makes the two inductive: a consumer bears a live
\* lease on its item, and only new tasks are being enqueued.
ConsumersBear ==
    \A c \in Consumers : job[c] # NoTask =>
        /\ Bears(c, job[c]) /\ ~lapsed[job[c]]
        /\ phase[c] = "requeueing" => attempts[job[c]] < MaxAttempts

OnlyNewIsEnqueued ==
    \A t \in Tasks :
        /\ owed[t] # "purge"
        /\ task[t] = "absent" => owed[t] = "nothing"
        /\ task[t] = "absent" \/ owed[t] = "enqueue" =>
              state[t] = "absent" /\ attempts[t] = 0 /\ ~delayed[t]

ExclusiveInv ==
    /\ TypeOK
    /\ AttemptsBounded
    /\ ConsumersBear
    /\ OnlyNewIsEnqueued
    /\ QueuedItemHasBudget

\* A task that is PENDING with a queued item is taken up in the end, if fewer
\* things go wrong than it has attempts.
PendingTaskIsTaken ==
    \A t \in Tasks :
        task[t] = "pending" /\ state[t] = "queued" ~> task[t] # "pending"

-----------------------------------------------------------------------------
(* The queue implements the delivery it promises: a leased item is held    *)
(* while its consumer lives and open as soon as it has died.               *)

Stage(t) ==
    CASE state[t] = "absent"     -> "none"
      [] state[t] = "queued"     -> "open"
      [] state[t] \in Terminal   -> "done"
      [] state[t] = "leased"     ->
            IF \E c \in Consumers : Alive(c, t) THEN "held" ELSE "open"

Bearer(t) ==
    IF Stage(t) = "held" THEN token[t] ELSE NoToken

Delivery == INSTANCE LeasedDelivery WITH
    Items <- Tasks, Bearers <- Consumers, Nobody <- NoToken,
    Budget <- MaxAttempts,
    stage <- [t \in Tasks |-> Stage(t)],
    bearer <- [t \in Tasks |-> Bearer(t)],
    handed <- attempts

\* Every step of the queue is a step of LeasedDelivery or changes nothing
\* there.
ImplementsDelivery == Delivery!Spec

=============================================================================
