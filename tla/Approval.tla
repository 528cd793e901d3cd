------------------------------- MODULE Approval -------------------------------
(***************************************************************************)
(* Human approval of a running task: the suspended executor                *)
(* (orchestrator._request_approval and dag_engine._run_human_approval_node)*)
(* against the approve and reject handlers (endpoints/tasks.py), which     *)
(* meet in the database only: a task_steps row per gate, which the         *)
(* executor polls, and the status of the task row.                         *)
(*                                                                         *)
(* One execution of one task, from its claim to its end (TaskLease.tla has *)
(* several), during which a handler may cancel the task and a worker sweep *)
(* its lease.  Every database transaction is one action; the status a      *)
(* session has loaded matters, as the ORM leaves out columns whose value   *)
(* does not change.                                                        *)
(***************************************************************************)
EXTENDS Integers, Sequences

CONSTANTS
    Gates,      \* human_approval nodes; one, if not OnDag
    Depth,      \* the layer of each in the workflow's DAG
    OnDag,      \* is the executor run_workflow_dag or run_task?
    Handlers,   \* concurrent approve and reject requests
    Decisions,  \* what administrators may decide
    CanCancel,  \* is the task ever cancelled?
    NoGate,     \* a handler that has not picked a step
    MaxFaults   \* bound: crashes of the executor and of its renewer

ASSUME ApprovalAssumption ==
    /\ Depth \in [Gates -> Nat]
    /\ OnDag \in BOOLEAN /\ CanCancel \in BOOLEAN
    /\ ~OnDag => \A f, g \in Gates : f = g
    /\ Decisions \subseteq {"approved", "rejected"}
    /\ NoGate \notin Gates
    /\ MaxFaults \in Nat

VARIABLES
    status,    \* Task.status
    lease,     \* of the execution, in the row: none, valid or expired
    step,      \* status of each gate's human_approval step
    created,   \* the gates in the order of their steps' primary keys
    run,       \* where the executor stands
    gate,      \* where it stands at each gate
    loaded,    \* the task's status as each gate's session has loaded it
    renewing,  \* does the renewer of the lease live?
    lost,      \* the orchestrator's cancel_event
    request,   \* where each handler stands
    picked,    \* the step it has picked
    verdict,   \* its decision
    sweeping, cancelling,  \* what a sweep or a cancel has decided to write
    granted,   \* history: the steps some handler has approved
    faults

row     == <<status, lease>>
gates   == <<step, created, gate, loaded>>
handler == <<request, picked, verdict>>
vars    == <<row, gates, run, renewing, lost, handler, sweeping, cancelling,
             granted, faults>>

Status == {"pending", "running", "waiting_approval",
           "completed", "failed", "cancelled"}
Active == {"running", "waiting_approval"}

\* At a gate: the step is written, the task suspended, the decision seen,
\* noted on the step, and acted upon.
GatePhase == {"ahead", "opened", "polling", "approved", "rejected",
              "noted_approved", "noted_rejected", "passed", "refused", "raised"}
AtGate    == {"opened", "polling", "approved", "rejected",
              "noted_approved", "noted_rejected"}

FlagsOK == renewing \in BOOLEAN /\ lost \in BOOLEAN
               /\ sweeping \in BOOLEAN /\ cancelling \in BOOLEAN

\* The types; a handler has picked a step that exists.
TypeOK ==
    /\ FlagsOK
    /\ status \in Status
    /\ lease \in {"none", "valid", "expired"}
    /\ step \in [Gates -> {"none", "waiting", "approved", "rejected"}]
    /\ created \in Seq(Gates)
    /\ run \in {"going", "failing", "fail_write", "done", "gone"}
    /\ gate \in [Gates -> GatePhase]
    /\ loaded \in [Gates -> Status]
    /\ request \in [Handlers -> {"idle", "checked", "picked", "decided"}]
    /\ picked \in [Handlers -> Gates \cup {NoGate}]
    /\ verdict \in [Handlers -> {"approved", "rejected"}]
    /\ granted \subseteq Gates
    /\ faults \in 0..MaxFaults
    /\ \A g \in Gates : gate[g] = "ahead" => step[g] = "none"
    /\ \A h \in Handlers :
          /\ request[h] \in {"picked", "decided"} <=> picked[h] # NoGate
          /\ \A g \in Gates : picked[h] = g => gate[g] # "ahead"

\* The task has been claimed.
Init ==
    /\ status = "running" /\ lease = "valid"
    /\ step = [g \in Gates |-> "none"] /\ created = <<>>
    /\ run = "going"
    /\ gate = [g \in Gates |-> "ahead"]
    /\ loaded = [g \in Gates |-> "running"]
    /\ renewing = TRUE /\ lost = FALSE
    /\ request = [h \in Handlers |-> "idle"]
    /\ picked = [h \in Handlers |-> NoGate]
    /\ verdict = [h \in Handlers |-> "rejected"]
    /\ sweeping = FALSE /\ cancelling = FALSE
    /\ granted = {} /\ faults = 0

-----------------------------------------------------------------------------
(* Helpers                                                                 *)

Goto(g, phase) == gate' = [gate EXCEPT ![g] = phase]

WriteFailed == status' = "failed" /\ lease' = "none"

\* What the ORM emits when a session sets a status it may already have read.
Assign(seen, st) == status' = IF seen = st THEN status ELSE st

\* The executor returns; its `finally` cancels the renewer.
Return == run' = "done" /\ renewing' = FALSE

\* Everyone else's state.
OthersSame == UNCHANGED <<handler, sweeping, cancelling, granted>>

\* save_task_step refuses an orchestrator that has lost its lease; a DAG run
\* has no cancel_event.
Guard == OnDag \/ ~lost

-----------------------------------------------------------------------------
(* The executor at a gate                                                  *)

\* Nodes of one layer run side by side, the next layer after all of them.
Reached(g) ==
    run = "going" /\ \A f \in Gates : Depth[f] < Depth[g] => gate[f] = "passed"

Open(g) ==
    /\ Reached(g) /\ gate[g] = "ahead" /\ Guard
    /\ step' = [step EXCEPT ![g] = "waiting"]
    /\ created' = Append(created, g)
    /\ Goto(g, "opened")
    /\ UNCHANGED <<row, loaded, run, renewing, lost, faults>> /\ OthersSame

\* Mutant: the task's status is left alone.
SuspendStepOnly(g) ==
    /\ run = "going" /\ gate[g] = "opened"
    /\ loaded' = [loaded EXCEPT ![g] = "waiting_approval"]
    /\ Goto(g, "polling")
    /\ UNCHANGED <<row, step, created, run, renewing, lost, faults>>
    /\ OthersSame

\* The task is suspended, whatever its status has become.
Suspend(g) ==
    /\ run = "going" /\ gate[g] = "opened"
    /\ status' = "waiting_approval"
    /\ loaded' = [loaded EXCEPT ![g] = "waiting_approval"]
    /\ Goto(g, "polling")
    /\ UNCHANGED <<lease, step, created, run, renewing, lost, faults>>
    /\ OthersSame

\* A poll in a session of its own finds the decision, ...
See(g) ==
    /\ run = "going" /\ gate[g] = "polling"
    /\ step[g] \in {"approved", "rejected"}
    /\ Goto(g, step[g])
    /\ UNCHANGED <<row, step, created, loaded, run, renewing, lost, faults>>
    /\ OthersSame

\* Mutant: no answer is taken for a yes.
TimeOutApproves(g) ==
    /\ run = "going" /\ gate[g] = "polling"
    /\ step[g] = "waiting"
    /\ Goto(g, "approved")
    /\ UNCHANGED <<row, step, created, loaded, run, renewing, lost, faults>>
    /\ OthersSame

\* ... or finds none once the deadline has passed: taken for a rejection.
TimeOut(g) ==
    /\ run = "going" /\ gate[g] = "polling"
    /\ step[g] = "waiting"
    /\ Goto(g, "rejected")
    /\ UNCHANGED <<row, step, created, loaded, run, renewing, lost, faults>>
    /\ OthersSame

\* The outcome is written on the step.  A DAG node loads the task afresh here;
\* the orchestrator holds the row it has suspended.
Note(g) ==
    /\ run = "going" /\ gate[g] \in {"approved", "rejected"} /\ Guard
    /\ step' = [step EXCEPT ![g] = gate[g]]
    /\ loaded' = [loaded EXCEPT ![g] = IF OnDag THEN status ELSE @]
    /\ Goto(g, IF gate[g] = "approved" THEN "noted_approved"
                                       ELSE "noted_rejected")
    /\ UNCHANGED <<row, created, run, renewing, lost, faults>> /\ OthersSame

\* The task goes on, or has failed.
Resume(g) ==
    /\ run = "going" /\ gate[g] = "noted_approved"
    /\ Assign(loaded[g], "running") /\ UNCHANGED lease
    /\ Goto(g, "passed")
    /\ UNCHANGED <<step, created, loaded, run, renewing, lost, faults>>
    /\ OthersSame

Refuse(g) ==
    /\ run = "going" /\ gate[g] = "noted_rejected"
    /\ Assign(loaded[g], "failed") /\ lease' = "none"
    /\ Goto(g, "refused")
    /\ IF OnDag THEN UNCHANGED <<run, renewing>> ELSE Return
    /\ UNCHANGED <<step, created, loaded, lost, faults>> /\ OthersSame

\* An exception in the gate's code.
GateRaises(g) ==
    /\ Reached(g) /\ gate[g] \in {"ahead"} \cup AtGate
    /\ Goto(g, "raised")
    /\ UNCHANGED <<row, step, created, loaded, run, renewing, lost, faults>>
    /\ OthersSame

-----------------------------------------------------------------------------
(* The execution around the gates                                          *)

\* gather has waited for every node of the layer, and one has failed; or
\* other work of the task fails between the gates.
Fail ==
    /\ run = "going" /\ \A g \in Gates : gate[g] \notin AtGate
    /\ \A f, g \in Gates : gate[f] \in {"refused", "raised"}
                              => gate[g] # "ahead" \/ Depth[f] < Depth[g]
    /\ run' = "failing"
    /\ UNCHANGED <<row, gates, renewing, lost, faults>> /\ OthersSame

\* A DAG run spares FAILED and CANCELLED rows, the orchestrator none.
FailRead ==
    /\ run = "failing"
    /\ IF OnDag /\ status \in {"failed", "cancelled"}
         THEN Return
         ELSE run' = "fail_write" /\ UNCHANGED renewing
    /\ UNCHANGED <<row, gates, lost, faults>> /\ OthersSame

FailWrite ==
    /\ run = "fail_write"
    /\ WriteFailed
    /\ Return
    /\ UNCHANGED <<gates, lost, faults>> /\ OthersSame

\* The orchestrator finds its lease lost at its next guarded write.
Abort ==
    /\ run = "going" /\ ~Guard
    /\ \A g \in Gates : gate[g] \in {"ahead", "approved", "rejected", "passed"}
    /\ Return
    /\ UNCHANGED <<row, gates, lost, faults>> /\ OthersSame

\* Mutant: the layers behind an approval do not wait for it.
CompleteUnlessRefused ==
    /\ run = "going"
    /\ \A g \in Gates : gate[g] \notin {"refused", "raised"}
    /\ status' = "completed" /\ lease' = "none"
    /\ Return
    /\ UNCHANGED <<gates, lost, faults>> /\ OthersSame

Complete ==
    /\ run = "going" /\ \A g \in Gates : gate[g] = "passed"
    /\ status' = "completed" /\ lease' = "none"
    /\ Return
    /\ UNCHANGED <<gates, lost, faults>> /\ OthersSame

\* The executor's process dies.
Vanish ==
    /\ run \in {"going", "failing", "fail_write"}
    /\ faults < MaxFaults /\ faults' = faults + 1
    /\ run' = "gone" /\ renewing' = FALSE
    /\ UNCHANGED <<row, gates, lost>> /\ OthersSame

-----------------------------------------------------------------------------
(* The lease                                                               *)

\* Both active statuses are renewed; anything else is a lost lease.
RenewTick ==
    /\ renewing
    /\ IF status \in Active /\ lease # "none"
         THEN lease' = "valid" /\ UNCHANGED <<renewing, lost>>
         ELSE renewing' = FALSE /\ lost' = ~OnDag /\ UNCHANGED lease
    /\ UNCHANGED <<status, gates, run, faults>> /\ OthersSame

RenewerDies ==
    /\ renewing
    /\ faults < MaxFaults /\ faults' = faults + 1
    /\ renewing' = FALSE
    /\ UNCHANGED <<row, gates, run, lost>> /\ OthersSame

\* A live renewer prevents it.
Expire ==
    /\ lease = "valid" /\ ~renewing
    /\ lease' = "expired"
    /\ UNCHANGED <<status, gates, run, renewing, lost, faults>> /\ OthersSame

\* Mutant: suspended tasks are not swept.
SweepReadRunning ==
    /\ ~sweeping
    /\ status = "running" /\ lease = "expired"
    /\ sweeping' = TRUE
    /\ UNCHANGED <<row, gates, run, renewing, lost, handler, cancelling,
                   granted, faults>>

\* recover_expired_task_leases selects the row, ...
SweepRead ==
    /\ ~sweeping
    /\ status \in Active /\ lease = "expired"
    /\ sweeping' = TRUE
    /\ UNCHANGED <<row, gates, run, renewing, lost, handler, cancelling,
                   granted, faults>>

\* ... and writes it by primary key.
SweepWrite ==
    /\ sweeping
    /\ WriteFailed
    /\ sweeping' = FALSE
    /\ UNCHANGED <<gates, run, renewing, lost, handler, cancelling, granted,
                   faults>>

Sweep == SweepRead \/ SweepWrite

-----------------------------------------------------------------------------
(* approve, reject and cancel                                              *)

\* _resolve_human_approval: the task is waiting, ...
Check(h) ==
    /\ request[h] = "idle" /\ status = "waiting_approval"
    /\ request' = [request EXCEPT ![h] = "checked"]
    /\ \E d \in Decisions : verdict' = [verdict EXCEPT ![h] = d]
    /\ UNCHANGED <<row, gates, run, renewing, lost, picked, sweeping,
                   cancelling, granted, faults>>

Latest(g) ==
    /\ step[g] = "waiting"
    /\ \E i \in DOMAIN created :
          /\ created[i] = g
          /\ \A j \in DOMAIN created : j > i => step[created[j]] # "waiting"

\* ... its latest waiting step is read, ...
Pick(h, g) ==
    /\ request[h] = "checked" /\ Latest(g)
    /\ request' = [request EXCEPT ![h] = "picked"]
    /\ picked' = [picked EXCEPT ![h] = g]
    /\ UNCHANGED <<row, gates, run, renewing, lost, verdict, sweeping,
                   cancelling, granted, faults>>

\* ... the decision is written on it by primary key and committed, ...
Decide(h) ==
    /\ request[h] = "picked"
    /\ step' = [step EXCEPT ![picked[h]] = verdict[h]]
    /\ granted' = IF verdict[h] = "approved" THEN granted \cup {picked[h]}
                                             ELSE granted
    /\ request' = [request EXCEPT ![h] = "decided"]
    /\ UNCHANGED <<row, created, gate, loaded, run, renewing, lost, picked,
                   verdict, sweeping, cancelling, faults>>

\* The request ends.
End(h) ==
    /\ request' = [request EXCEPT ![h] = "idle"]
    /\ picked' = [picked EXCEPT ![h] = NoGate]
    /\ UNCHANGED verdict

\* ... and then, in a transaction of its own, on the task.
Apply(h) ==
    /\ request[h] = "decided"
    /\ IF verdict[h] = "approved"
         THEN status' = "running" /\ UNCHANGED lease
         ELSE WriteFailed
    /\ End(h)
    /\ UNCHANGED <<gates, run, renewing, lost, sweeping, cancelling, granted,
                   faults>>

\* A refusal (role, no waiting step), or a request that dies on the way.
GiveUp(h) ==
    /\ request[h] # "idle"
    /\ End(h)
    /\ UNCHANGED <<row, gates, run, renewing, lost, sweeping, cancelling,
                   granted, faults>>

\* cancel_task refuses finished tasks, ...
CancelRead ==
    /\ CanCancel /\ ~cancelling
    /\ status \in Active
    /\ cancelling' = TRUE
    /\ UNCHANGED <<row, gates, run, renewing, lost, handler, sweeping, granted,
                   faults>>

\* ... and then writes the status; the lease columns stay.
CancelWrite ==
    /\ cancelling
    /\ status' = "cancelled"
    /\ cancelling' = FALSE
    /\ UNCHANGED <<lease, gates, run, renewing, lost, handler, sweeping,
                   granted, faults>>

Cancel == CancelRead \/ CancelWrite

-----------------------------------------------------------------------------

Wait(g) ==
    \/ Open(g) \/ Suspend(g) \/ See(g) \/ TimeOut(g)
    \/ Note(g) \/ Resume(g) \/ Refuse(g)

Execute == Fail \/ FailRead \/ FailWrite \/ Abort \/ Complete

Serve(h) ==
    Check(h) \/ (\E g \in Gates : Pick(h, g)) \/ Decide(h) \/ Apply(h) \/ GiveUp(h)

Next ==
    \/ \E g \in Gates : Wait(g) \/ GateRaises(g)
    \/ Execute \/ Vanish
    \/ RenewTick \/ RenewerDies \/ Expire \/ Sweep
    \/ \E h \in Handlers : Serve(h)
    \/ Cancel

Spec == Init /\ [][Next]_vars

\* The executor's coroutines go on (a poll loop ends at its deadline), time
\* passes, and workers sweep.  Nobody has to approve anything.
Fairness ==
    /\ \A g \in Gates : WF_vars(Wait(g))
    /\ WF_vars(FailRead) /\ WF_vars(FailWrite) /\ WF_vars(Complete \/ Abort)
    /\ WF_vars(Fail /\ \E g \in Gates : gate[g] \in {"refused", "raised"})
    /\ WF_vars(Expire) /\ WF_vars(Sweep)

FairSpec == Spec /\ Fairness

-----------------------------------------------------------------------------
(* Properties                                                              *)

\* Nothing behind a gate runs unless an administrator has approved it, and a
\* task with gates completes only if each of its gates was approved: neither
\* a timeout, nor a race of it with a decision, nor a lost lease opens one.
NoWorkUnapproved ==
    /\ \A g \in Gates : gate[g] = "passed" => g \in granted
    /\ status = "completed" => granted = Gates

\* Decisions taken one at a time agree with the outcome: a completed task has
\* no step that says rejected.
CompletedIsApproved ==
    status = "completed" => \A g \in Gates : step[g] = "approved"

\* A step that waits under a live lease can be decided: as soon as every gate
\* that was opened has suspended the task, the handlers find it in
\* WAITING_APPROVAL, the only status they accept.
WaitingStepIsDecidable ==
    lease # "none" /\ (\A g \in Gates : gate[g] # "opened") =>
        \A g \in Gates : gate[g] = "polling" /\ step[g] = "waiting"
                            => status = "waiting_approval"

\* Whoever dies or stays silent, a suspended task does not stay suspended.
SuspensionEnds ==
    status = "waiting_approval" ~> status # "waiting_approval"
=============================================================================
