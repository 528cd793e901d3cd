------------------------------ MODULE TaskLease ------------------------------
(***************************************************************************)
(* The execution lease of one task row (services/task_lease.py) together   *)
(* with everything that writes the row's status: the coroutines that       *)
(* execute the task (the orchestrator's single-agent path and a DAG run),  *)
(* the background renewers, the workers' lease sweep, and the HTTP         *)
(* handlers that cancel, resume or restart it.  The task's workflow has no *)
(* human_approval node, so that it never waits for approval and the        *)
(* approve and reject handlers refuse it; Approval.tla has the other ones. *)
(*                                                                         *)
(* Every database transaction is one action.  What the code reads in one   *)
(* transaction and writes in a later one is two actions: the ORM emits     *)
(* UPDATE ... WHERE id = ?, so the late write lands whatever the row has   *)
(* become meanwhile.  Tasks do not share lease state, hence one row.       *)
(***************************************************************************)
EXTENDS Integers

CONSTANTS
    Orchestrators,  \* calls of AgentOrchestrator.run_task on the task
    DagRuns,        \* calls of run_workflow_dag on the task
    Sweepers,       \* worker processes that sweep expired leases
    Requests,       \* handlers: cancel, resume-from-step, startup recovery
    NoToken,        \* NULL in the execution_token column
    CanStall        \* may a process stall for longer than TASK_LEASE_DURATION?

Executors == Orchestrators \cup DagRuns

ASSUME ExecutorsAssumption ==
    /\ Orchestrators \cap DagRuns = {}
    /\ NoToken \notin Executors
    /\ Sweepers \cap Requests = {}
    /\ CanStall \in BOOLEAN

VARIABLES
    status,    \* Task.status
    token,     \* Task.execution_token: the executor whose claim wrote it
    lease,     \* Task.execution_token_expires_at: absent, ahead or passed
    pc,        \* where each executor's coroutine stands
    renewing,  \* the token each executor's background renewer extends
    lost,      \* each orchestrator's cancel_event
    session,   \* the write each sweep or handler has decided on but not done
    reopened   \* history: has a claimed row gone back to PENDING?

row  == <<status, token, lease>>
vars == <<status, token, lease, pc, renewing, lost, session, reopened>>

Status   == {"pending", "running", "waiting_approval",
             "completed", "failed", "cancelled"}
Active   == {"running", "waiting_approval"}
Terminal == {"completed", "failed", "cancelled"}

\* Phases of an executor that has the task's work in its hands.
OrchWorking == {"claimed", "answering", "answered", "erred", "recorded",
                "closed", "completed", "failing", "failing_row",
                "failing_late", "failing_late_row", "failed", "fallback"}
DagWorking  == {"dag_running", "dag_failing", "dag_fail", "dag_fail_bare"}
Working     == OrchWorking \cup DagWorking
Claiming    == {"claiming", "missed", "resetting"}
Ended       == {"rejected", "aborted", "done"}
Phase       == {"idle", "gone"} \cup Claiming \cup Working \cup Ended

\* The types; and the two lease columns go together: whoever clears or writes
\* one of execution_token and execution_token_expires_at does so to the other.
TypeOK ==
    /\ status \in Status
    /\ token \in Executors \cup {NoToken}
    /\ lease \in {"none", "valid", "expired"}
    /\ pc \in [Executors -> Phase]
    /\ renewing \in [Executors -> Executors \cup {NoToken}]
    /\ lost \in [Executors -> BOOLEAN]
    /\ session \in [Sweepers \cup Requests ->
                        {"idle", "sweep", "cancel", "resume", "recover"}]
    /\ reopened \in BOOLEAN
    /\ token = NoToken <=> lease = "none"

\* A task is created PENDING and without a lease (models/task.py).
Init ==
    /\ status = "pending" /\ token = NoToken /\ lease = "none"
    /\ pc = [e \in Executors |-> "idle"]
    /\ renewing = [e \in Executors |-> NoToken]
    /\ lost = [e \in Executors |-> FALSE]
    /\ session = [s \in Sweepers \cup Requests |-> "idle"]
    /\ reopened = FALSE

-----------------------------------------------------------------------------
(* Row writes and control-flow steps shared by the actions.                *)

\* Mutant: the expiry column is forgotten.
ReleaseTokenOnly == token' = NoToken /\ UNCHANGED lease

ReleaseTaskLease == token' = NoToken /\ lease' = "none"

\* update_task_status of a terminal status: no condition on the row.
WriteTerminal(st) == status' = st /\ ReleaseTaskLease

\* The same when the row was last loaded without a lease: clearing columns
\* that are NULL already is no change, and the ORM leaves them out.
WriteTerminalBare(st) == status' = st /\ UNCHANGED <<token, lease>>

Goto(e, phase) == pc' = [pc EXCEPT ![e] = phase]

StopRenewer(e) == renewing' = [renewing EXCEPT ![e] = NoToken]

\* The coroutine returns; its `finally` cancels the renewer.
Finish(e, phase) == Goto(e, phase) /\ StopRenewer(e)

-----------------------------------------------------------------------------
(* claim_task_lease                                                        *)

MayClaim(e) ==
    \/ pc[e] = "claiming"
    \/ e \in Orchestrators /\ pc[e] = "idle"

\* Where a claimed task goes next: run_task, or run_workflow_dag.
FirstPhase(e) == IF e \in Orchestrators THEN "claimed" ELSE "dag_running"

\* Mutant: the UPDATE has lost its condition on the status.
ClaimUnconditionally(e) ==
    /\ MayClaim(e)
    /\ status' = "running" /\ token' = e /\ lease' = "valid"
    /\ Goto(e, FirstPhase(e))
    /\ renewing' = [renewing EXCEPT ![e] = e]
    /\ UNCHANGED <<lost, session, reopened>>

\* The compare-and-set succeeds, and the caller starts its renewer.
Claim(e) ==
    /\ MayClaim(e)
    /\ status = "pending"
    /\ status' = "running" /\ token' = e /\ lease' = "valid"
    /\ Goto(e, FirstPhase(e))
    /\ renewing' = [renewing EXCEPT ![e] = e]
    /\ UNCHANGED <<lost, session, reopened>>

\* It matches no row; the row is read again after the rollback.
ClaimMiss(e) ==
    /\ MayClaim(e)
    /\ status # "pending"
    /\ Goto(e, "missed")
    /\ UNCHANGED <<row, renewing, lost, session, reopened>>

\* Where TaskNotRunnableError takes the caller: out of run_task, or into the
\* failure handler of run_workflow_dag.
NotRunnable(e) == IF e \in Orchestrators THEN "rejected" ELSE "dag_failing"

ReadAfterMiss(e) ==
    /\ pc[e] = "missed"
    /\ Goto(e, IF status = "running" /\ lease = "expired"
                 THEN "resetting" ELSE NotRunnable(e))
    /\ UNCHANGED <<row, renewing, lost, session, reopened>>

\* Mutant: the lease is released, the status stays.
ResetLeaseOnly(e) ==
    /\ pc[e] = "resetting"
    /\ ReleaseTaskLease
    /\ Goto(e, "claiming")
    /\ reopened' = TRUE
    /\ UNCHANGED <<status, renewing, lost, session>>

\* The expired row goes back to PENDING, and the claim is tried again.
ResetExpired(e) ==
    /\ pc[e] = "resetting"
    /\ status' = "pending" /\ ReleaseTaskLease
    /\ Goto(e, "claiming")
    /\ reopened' = TRUE
    /\ UNCHANGED <<renewing, lost, session>>

-----------------------------------------------------------------------------
(* renew_task_lease, and the passing of time                               *)

\* Mutant: the renewal writes the token instead of matching it.
RenewByTaskId(e) ==
    /\ renewing[e] # NoToken
    /\ status \in Active
    /\ token' = renewing[e] /\ lease' = "valid"
    /\ UNCHANGED <<status, pc, renewing, lost, session, reopened>>

\* One tick.  The extension matches an active row that carries the token,
\* expired or not.  A miss stops the renewer and, for an orchestrator only,
\* sets its cancel_event: a DAG run passes no on_lost.
RenewTick(e) ==
    /\ renewing[e] # NoToken
    /\ IF status \in Active /\ token = renewing[e]
         THEN lease' = "valid" /\ UNCHANGED <<renewing, lost>>
         ELSE /\ StopRenewer(e)
              /\ lost' = [lost EXCEPT ![e] = e \in Orchestrators \/ @]
              /\ UNCHANGED lease
    /\ UNCHANGED <<status, token, pc, session, reopened>>

\* An exception stops the renewer without a word to the executor.
RenewerDies(e) ==
    /\ renewing[e] # NoToken
    /\ StopRenewer(e)
    /\ UNCHANGED <<row, pc, lost, session, reopened>>

\* Thirty minutes pass without a renewal.  A live renewer ticks six times in
\* a lease, so this takes a dead one or, if CanStall, a stalled process.
Expire ==
    /\ lease = "valid"
    /\ CanStall \/ \A e \in Executors : renewing[e] # token
    /\ lease' = "expired"
    /\ UNCHANGED <<status, token, pc, renewing, lost, session, reopened>>

-----------------------------------------------------------------------------
(* The orchestrator's single-agent path                                    *)

\* Writes behind _raise_if_lease_lost, and the phase each leads to:
\* step opened, model call recorded (also a failed one), step completed,
\* result message sent; failed step recorded, error message sent.
Guarded == {"claimed", "answered", "erred", "recorded", "completed",
            "failing", "failing_late", "failed"}
After(phase) ==
    CASE phase = "claimed"   -> "answering"
      [] phase = "answered"  -> "recorded"
      [] phase = "erred"     -> "failing"
      [] phase = "recorded"  -> "closed"
      [] phase = "failing"   -> "failing_row"
      [] phase = "failing_late" -> "failing_late_row"
      [] OTHER               -> "done"

GuardedWrite(e) ==
    /\ pc[e] \in Guarded
    /\ ~lost[e]
    /\ Goto(e, After(pc[e]))
    /\ IF After(pc[e]) = "done" THEN StopRenewer(e) ELSE UNCHANGED renewing
    /\ UNCHANGED <<row, lost, session, reopened>>

\* The guard raises.  On the way to a result run_task catches it and returns;
\* inside _mark_failed `except Exception` catches it, and the failure is
\* written once more through a fallback session.
GuardRaises(e) ==
    /\ pc[e] \in Guarded
    /\ lost[e]
    /\ IF pc[e] \in {"failing", "failing_late", "failed"}
         THEN Goto(e, "fallback") /\ UNCHANGED renewing
         ELSE Finish(e, "aborted")
    /\ UNCHANGED <<row, lost, session, reopened>>

ModelAnswers(e) ==
    /\ pc[e] = "answering"
    /\ \E phase \in {"answered", "erred"} : Goto(e, phase)
    /\ UNCHANGED <<row, renewing, lost, session, reopened>>

\* update_task_status(COMPLETED): neither guard nor condition on the row.
Complete(e) ==
    /\ pc[e] = "closed"
    /\ WriteTerminal("completed")
    /\ Goto(e, "completed")
    /\ UNCHANGED <<renewing, lost, session, reopened>>

\* Any other exception between the claim and the return, before or after the
\* COMPLETED commit, which reloads a row without a lease; a session left
\* inactive goes straight to the fallback.
Raise(e) ==
    /\ pc[e] \in {"claimed", "answering", "answered", "recorded",
                  "closed", "completed"}
    /\ \/ Goto(e, IF pc[e] = "completed" THEN "failing_late" ELSE "failing")
       \/ Goto(e, "fallback")
    /\ UNCHANGED <<row, renewing, lost, session, reopened>>

\* _mark_failed writes the row after the failed step.
MarkFailed(e) ==
    /\ \/ pc[e] = "failing_row" /\ WriteTerminal("failed")
       \/ pc[e] = "failing_late_row" /\ WriteTerminalBare("failed")
    /\ Goto(e, "failed")
    /\ UNCHANGED <<renewing, lost, session, reopened>>

\* Mutant: the failure handler returns without having written the row.
FallbackSilent(e) ==
    /\ pc[e] = "fallback"
    /\ Finish(e, "done")
    /\ UNCHANGED <<row, lost, session, reopened>>

\* The fallback orchestrator has no cancel_event: it always writes.
FallbackFailed(e) ==
    /\ pc[e] = "fallback"
    /\ WriteTerminal("failed")
    /\ Finish(e, "done")
    /\ UNCHANGED <<lost, session, reopened>>

-----------------------------------------------------------------------------
(* run_workflow_dag                                                        *)

\* It claims a PENDING task, and otherwise goes on with whatever token it
\* read, renewing that one.
DagStart(e) ==
    /\ e \in DagRuns /\ pc[e] = "idle"
    /\ IF status = "pending"
         THEN Goto(e, "claiming") /\ UNCHANGED renewing
         ELSE /\ Goto(e, "dag_running")
              /\ renewing' = [renewing EXCEPT ![e] = token]
    /\ UNCHANGED <<row, lost, session, reopened>>

\* The layers are done: COMPLETED, whatever the row says.
DagComplete(e) ==
    /\ pc[e] = "dag_running"
    /\ WriteTerminal("completed")
    /\ Finish(e, "done")
    /\ UNCHANGED <<lost, session, reopened>>

\* A node fails, or the claim raises: both end in the failure handler.
DagRaise(e) ==
    /\ e \in DagRuns /\ pc[e] \in Claiming \cup {"dag_running"}
    /\ Goto(e, "dag_failing")
    /\ UNCHANGED <<row, renewing, lost, session, reopened>>

\* The handler reads the row, spares FAILED and CANCELLED, ...
DagFailRead(e) ==
    /\ pc[e] = "dag_failing"
    /\ IF status \in {"failed", "cancelled"}
         THEN Finish(e, "done")
         ELSE /\ Goto(e, IF token = NoToken THEN "dag_fail_bare"
                                            ELSE "dag_fail")
              /\ UNCHANGED renewing
    /\ UNCHANGED <<row, lost, session, reopened>>

\* ... and marks any other row FAILED.
DagFailWrite(e) ==
    /\ \/ pc[e] = "dag_fail" /\ WriteTerminal("failed")
       \/ pc[e] = "dag_fail_bare" /\ WriteTerminalBare("failed")
    /\ Finish(e, "done")
    /\ UNCHANGED <<lost, session, reopened>>

\* The process dies, or both failure sessions do: nothing is written.
Vanish(e) ==
    /\ pc[e] \in Working \cup Claiming
    /\ Finish(e, "gone")
    /\ UNCHANGED <<row, lost, session, reopened>>

-----------------------------------------------------------------------------
(* Sweeps and handlers: read and decide, then write by primary key         *)

\* Mutant: the sweep looks for suspended tasks only.
DecidesWaitingOnly(what) ==
    CASE what = "sweep"   -> status = "waiting_approval" /\ lease = "expired"
      [] what = "cancel"  -> status \notin Terminal
      [] what = "resume"  -> status \in {"failed", "cancelled"}
      [] what = "recover" -> status = "running" /\ lease # "valid"

Decides(what) ==
    CASE what = "sweep"   -> status \in Active /\ lease = "expired"
      [] what = "cancel"  -> status \notin Terminal
      [] what = "resume"  -> status \in {"failed", "cancelled"}
      [] what = "recover" -> status = "running" /\ lease # "valid"

Read(s, what) ==
    /\ session[s] = "idle"
    /\ Decides(what)
    /\ session' = [session EXCEPT ![s] = what]
    /\ UNCHANGED <<row, pc, renewing, lost, reopened>>

\* recover_expired_task_leases
SweepWrite(s) ==
    /\ session[s] = "sweep"
    /\ WriteTerminal("failed")
    /\ session' = [session EXCEPT ![s] = "idle"]
    /\ UNCHANGED <<pc, renewing, lost, reopened>>

\* cancel_task: the lease columns stay as they are.
CancelWrite(s) ==
    /\ session[s] = "cancel"
    /\ status' = "cancelled" /\ UNCHANGED <<token, lease>>
    /\ session' = [session EXCEPT ![s] = "idle"]
    /\ UNCHANGED <<pc, renewing, lost, reopened>>

\* resume_task_from_step: likewise.
ResumeWrite(s) ==
    /\ session[s] = "resume"
    /\ status' = "pending" /\ UNCHANGED <<token, lease>>
    /\ session' = [session EXCEPT ![s] = "idle"]
    /\ reopened' = TRUE
    /\ UNCHANGED <<pc, renewing, lost>>

\* recover_unfinished_tasks, at the start of an inline API process
RecoverWrite(s) ==
    /\ session[s] = "recover"
    /\ status' = "pending" /\ ReleaseTaskLease
    /\ session' = [session EXCEPT ![s] = "idle"]
    /\ reopened' = TRUE
    /\ UNCHANGED <<pc, renewing, lost>>

\* A handler refuses after its read (role check) or its client goes away.
Abandon(s) ==
    /\ session[s] # "idle"
    /\ session' = [session EXCEPT ![s] = "idle"]
    /\ UNCHANGED <<row, pc, renewing, lost, reopened>>

-----------------------------------------------------------------------------

\* What an executor's coroutine does of its own accord once started.
Proceed(e) ==
    \/ ReadAfterMiss(e) \/ ResetExpired(e)
    \/ GuardedWrite(e) \/ GuardRaises(e) \/ ModelAnswers(e) \/ Complete(e)
    \/ MarkFailed(e) \/ FallbackFailed(e)
    \/ DagComplete(e) \/ DagFailRead(e) \/ DagFailWrite(e)

Begin(e)  == Claim(e) \/ ClaimMiss(e) \/ DagStart(e)
Mishap(e) == Raise(e) \/ DagRaise(e) \/ Vanish(e) \/ RenewerDies(e)

Sweep(s)  == Read(s, "sweep") \/ SweepWrite(s)
Handle(s) ==
    \/ \E what \in {"cancel", "resume", "recover"} : Read(s, what)
    \/ CancelWrite(s) \/ ResumeWrite(s) \/ RecoverWrite(s) \/ Abandon(s)

Next ==
    \/ \E e \in Executors : Begin(e) \/ Proceed(e) \/ Mishap(e) \/ RenewTick(e)
    \/ Expire
    \/ \E s \in Sweepers : Sweep(s)
    \/ \E s \in Requests : Handle(s)

Spec == Init /\ [][Next]_vars

\* asyncio runs every coroutine that can run and every model call returns or
\* times out; clocks advance; each worker sweeps again and again.
Fairness ==
    /\ \A e \in Executors : WF_vars(Proceed(e))
    /\ WF_vars(Expire)
    /\ \A s \in Sweepers : WF_vars(Sweep(s))

FairSpec == Spec /\ Fairness

-----------------------------------------------------------------------------
(* Properties                                                              *)

\* Every RUNNING or WAITING_APPROVAL row carries a lease, so the workers'
\* sweep, which skips rows without one, reaches it when its executor dies.
ActiveRowHasLease == status \in Active => token # NoToken

\* Executor e has the execution right: an active row carries its token.
Holds(e) == status \in Active /\ token = e

\* The lease on an active row belongs to an executor that still works on it
\* or died without a word: nobody returns and leaves the row active.
ReturnedExecutorHoldsNothing ==
    \A e \in Executors : Holds(e) => pc[e] \in Working \cup {"gone"}

\* cancel_event never lies: an orchestrator that was told its lease is lost
\* does not hold an active row.
LostMeansLost ==
    \A e \in Executors : lost[e] => ~Holds(e)

\* Two orchestrators are at work at once only after something put a claimed
\* row back to PENDING: the claim by itself is exclusive.
SoleOrchestrator ==
    ~reopened =>
        \A e, f \in Orchestrators :
            pc[e] \in OrchWorking /\ pc[f] \in OrchWorking => e = f

\* A claim token that has left the row never comes back: no stale ORM write
\* brings a lost lease to life again.
LostLeaseStaysLost ==
    [][\A e \in Executors :
          pc[e] \in Working \cup Ended /\ token # e => token' # e]_vars

\* A row does not stay RUNNING: its executor settles it, somebody takes it
\* over, or the sweep fails it.
RunningIsSettled == status = "running" ~> status # "running"

-----------------------------------------------------------------------------
(* The inductive invariant                                                 *)

BeforeClaim == {"idle"} \cup Claiming

\* Once it has settled the row, an executor holds nothing any more.
SettledHoldsNothing ==
    \A e \in Executors : pc[e] \in {"completed", "failed"} => ~Holds(e)

\* An orchestrator's renewer extends its own token, and only after the claim;
\* cancel_event too is set after the claim at the earliest.
RenewerFollowsClaim ==
    \A e \in Executors :
        /\ e \in Orchestrators /\ renewing[e] # NoToken =>
              renewing[e] = e /\ pc[e] \notin BeforeClaim
        /\ lost[e] => pc[e] \notin BeforeClaim

\* Until a claimed row is reopened, orchestrators are at work only on a row
\* that has left PENDING.
WorkedRowIsTaken ==
    ~reopened =>
        \A e \in Orchestrators : pc[e] \in OrchWorking => status # "pending"

IInv ==
    /\ TypeOK
    /\ ActiveRowHasLease
    /\ SettledHoldsNothing
    /\ RenewerFollowsClaim
    /\ LostMeansLost
    /\ ReturnedExecutorHoldsNothing
    /\ WorkedRowIsTaken
    /\ SoleOrchestrator
=============================================================================
