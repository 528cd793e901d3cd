---------------------------- MODULE Collaboration ----------------------------
(* A task that several agents work on in turns, as AgentOrchestrator runs it.   *)
(*                                                                           *)
(* Three ways to run it: a relay of hops (_run_relay_task), and a manager's    *)
(* task: plan, sub-tasks, review, final summary (_run_multi_agent_task), with   *)
(* the sub-tasks one by one or with their model calls side by side.             *)
(*                                                                           *)
(* Every turn writes in the same order: the agent is "running", a step is       *)
(* "running", the model is called and each call is logged, the step is          *)
(* "completed", the answer is posted, the agent is "idle". An exception on the  *)
(* way goes to _mark_failed_resilient with the agent and the step the handler   *)
(* holds at that moment. The lease of the task may be lost at any time: the     *)
(* writes of steps, calls and messages then raise, those of agents and of the   *)
(* task's status do not look (claim, renewal and sweep are TaskLease's).         *)
(*                                                                           *)
(* Abstracted: texts, prompts, context messages, broadcasts, the trace; one    *)
(* tool call stands for the calls of a round. The gate between review and        *)
(* final is Approval's: here requires_approval is False.                        *)
EXTENDS Integers, Sequences, FiniteSets

CONSTANTS
    Modes,          \* the ways to run: some of "relay", "sequential", "parallel"
    Hops,           \* length of the relay chain
    Subtasks,       \* sub-tasks of the manager's plan
    Parallelism,    \* agent_worker_parallelism
    MaxRounds,      \* agent_max_tool_iterations
    MaxFaults       \* bound: writes that fail in the database

ASSUME CountsAssumption ==
    /\ Modes \subseteq {"relay", "sequential", "parallel"}
    /\ Hops \in Nat /\ Hops >= 2
    /\ Subtasks \in Nat /\ Subtasks >= 1
    /\ Parallelism \in Nat /\ Parallelism >= 1
    /\ MaxRounds \in Nat /\ MaxFaults \in Nat

VARIABLES
    mode, agentOf,  \* how the task runs, and who takes which turn
    absent,         \* agents that are not in the workspace
    pc, turn,       \* the executor: the next operation, and whose turn it is
    own,            \* own[t]: the step of turn t, 0 before there is one
    hop,            \* hop_ctx: the worker turn and the step it holds, 0 for None
    rounds, reply,  \* tool rounds of the turn; what the model last returned
    call,           \* call[w]: the concurrent call of worker turn w
    outputs,        \* previous_outputs, or plan, worker_results and review
    steps, calls, messages, agents, task,          \* rows
    writer,         \* who writes the failure: "none", "own", "fallback"
    lease, faults

config  == <<mode, agentOf, absent>>
rows    == <<steps, calls, messages, agents, task>>
control == <<turn, own, hop, rounds, reply, call, outputs>>
vars    == <<config, pc, control, rows, writer, lease, faults>>
-----------------------------------------------------------------------------
Relay == mode = "relay"
Final == Subtasks + 3
Last  == IF Relay THEN Hops ELSE Final

WorkerTurns == 2..(Subtasks + 1)
LastWorker  == Subtasks + 1

MaxTurn == IF Hops > Final THEN Hops ELSE Final
Turns   == 1..MaxTurn
Agents  == Turns

Kind(t) ==
    CASE Relay                   -> "hop"
      [] ~Relay /\ t = 1         -> "plan"
      [] ~Relay /\ t \in WorkerTurns -> "worker"
      [] ~Relay /\ t = Final - 1 -> "review"
      [] OTHER                   -> "final"

Concurrent == mode = "parallel" /\ Subtasks > 1 /\ Kind(turn) = "worker"
Missing(t) == agentOf[t] \in absent

\* The lease guard of save_task_step, save_model_call, send_result_message.
\* The failure session has no cancel event to look at.
RaiseIfLeaseLost == lease = "lost" /\ writer # "fallback"

\* What the outer handler holds: hop_ctx first, and it is never cleared.
HeldTurn ==
    IF hop.turn # 0 THEN hop.turn
    ELSE IF Kind(turn) = "worker" THEN 0
    ELSE turn
HeldStep ==
    IF hop.step # 0 THEN hop.step
    ELSE IF turn = 0 \/ Kind(turn) = "worker" THEN 0
    ELSE own[turn]
-----------------------------------------------------------------------------
\* The manager plans and sums up; a worker may be asked twice.
Seats(m) ==
    IF m = "relay" THEN {[t \in Turns |-> t]}
    ELSE {[t \in Turns |-> IF t = Final THEN 1 ELSE t],
          [t \in Turns |-> IF t = Final THEN 1 ELSE
                           IF t \in WorkerTurns THEN 2 ELSE t]}

Init ==
    /\ mode \in Modes
    /\ agentOf \in Seats(mode)
    /\ absent \in SUBSET (IF Relay THEN 1..Hops ELSE 2..(Final - 1))
    /\ pc = IF Relay THEN "load" ELSE "enter"
    /\ turn = IF Relay THEN 0 ELSE 1
    /\ own = [t \in Turns |-> 0]
    /\ hop = [turn |-> 0, step |-> 0]
    /\ rounds = 0 /\ reply = "none"
    /\ call = [w \in WorkerTurns |-> "none"]
    /\ outputs = <<>>
    /\ steps = <<>> /\ calls = <<>> /\ messages = <<>>
    /\ agents = [a \in Agents |-> "idle"]
    /\ task = "running"
    /\ writer = "none" /\ lease = "held" /\ faults = 0
-----------------------------------------------------------------------------
(* What each operation writes.                                                 *)

SetAgent(t, status) ==
    /\ agents' = [agents EXCEPT ![agentOf[t]] = status]
    /\ UNCHANGED <<steps, calls, messages, task>>

AddStep(t, kind, status) ==
    /\ steps' = Append(steps, [turn |-> t, kind |-> kind, status |-> status])
    /\ UNCHANGED <<calls, messages, agents, task>>

SetStep(i, status) ==
    /\ steps' = [steps EXCEPT ![i].status = status]
    /\ UNCHANGED <<calls, messages, agents, task>>

AddCall(t, status) ==
    /\ calls' = Append(calls, [turn |-> t, status |-> status])
    /\ UNCHANGED <<steps, messages, agents, task>>

AddMessage(t, kind) ==
    /\ messages' = Append(messages, [turn |-> t, kind |-> kind])
    /\ UNCHANGED <<steps, calls, agents, task>>

SetTask(status) ==
    /\ task' = status
    /\ UNCHANGED <<steps, calls, messages, agents>>

Goto(label) == pc' = label /\ UNCHANGED <<writer, faults>>

\* The handler of an exception: _mark_failed with the session at hand.
Raise == pc' = "fail_step" /\ writer' = "own" /\ UNCHANGED faults

\* _TaskLeaseLostError passes every handler: run_task returns.
LeaveIfLost(label) ==
    /\ pc = label
    /\ RaiseIfLeaseLost
    /\ pc' = "gone"
    /\ UNCHANGED <<config, control, rows, writer, lease, faults>>
-----------------------------------------------------------------------------
(* A turn.                                                                     *)

\* _load_relay_agents: all of the chain, or nothing starts.
LoadRelayAgents ==
    /\ pc = "load"
    /\ IF \E t \in 1..Hops : Missing(t) THEN Raise /\ UNCHANGED turn
       ELSE Goto("enter") /\ turn' = 1
    /\ UNCHANGED <<config, own, hop, rounds, reply, call, outputs, rows, lease>>

\* _find_agent, and the worker's entry in hop_ctx: side by side, the step of
\* the worker before stays in it.
Enter ==
    /\ pc = "enter"
    /\ IF Kind(turn) \in {"worker", "review"} /\ Missing(turn)
       THEN Raise /\ UNCHANGED hop
       ELSE /\ Goto("announce")
            /\ hop' = IF Kind(turn) # "worker" THEN hop
                      ELSE [turn |-> turn,
                            step |-> IF Concurrent THEN hop.step ELSE 0]
    /\ UNCHANGED <<config, turn, own, rounds, reply, call, outputs, rows, lease>>

Announce ==
    /\ pc = "announce"
    /\ SetAgent(turn, "running")
    /\ Goto("open")
    /\ UNCHANGED <<config, control, lease>>

OpenStep ==
    /\ pc = "open" /\ ~RaiseIfLeaseLost
    /\ AddStep(turn, "turn", "running")
    /\ own' = [own EXCEPT ![turn] = Len(steps) + 1]
    /\ hop' = IF Kind(turn) = "worker" THEN [hop EXCEPT !.step = Len(steps) + 1] ELSE hop
    /\ rounds' = 0
    /\ IF ~Concurrent THEN Goto("call") /\ UNCHANGED <<turn, call>>
       ELSE IF turn < LastWorker
       THEN Goto("enter") /\ turn' = turn + 1 /\ UNCHANGED call
       ELSE Goto("gather") /\ turn' = 2 /\ call' = [w \in WorkerTurns |-> "waiting"]
    /\ UNCHANGED <<config, reply, outputs, lease>>

Replies ==
    {"content", "error"}
        \cup (IF Kind(turn) = "hop" THEN {"pass"} ELSE {})
        \cup (IF Kind(turn) = "plan" THEN {"malformed"} ELSE {})
        \cup (IF Kind(turn) \in {"hop", "worker"} /\ mode # "parallel"
              THEN {"tools"} ELSE {})

ModelAnswers ==
    /\ pc = "call"
    /\ reply' \in Replies
    /\ Goto("log")
    /\ UNCHANGED <<config, turn, own, hop, rounds, call, outputs, rows, lease>>

\* Mutant: one round of tools too many.
SaveModelCallOnceMore ==
    /\ pc = "log" /\ ~RaiseIfLeaseLost
    /\ AddCall(turn, IF reply = "error" THEN "failed" ELSE "completed")
    /\ IF Concurrent THEN Goto("close")
       ELSE IF reply \in {"error", "malformed"} THEN Raise
       ELSE IF reply # "tools" THEN Goto("close")
       ELSE IF rounds <= MaxRounds THEN Goto("tool")
       ELSE Raise
    /\ UNCHANGED <<config, control, lease>>

\* Mutant: the first failed call of several is raised where it is found.
SaveModelCallRaises ==
    /\ pc = "log" /\ ~RaiseIfLeaseLost
    /\ AddCall(turn, IF reply = "error" THEN "failed" ELSE "completed")
    /\ IF reply \in {"error", "malformed"} THEN Raise
       ELSE IF reply # "tools" THEN Goto("close")
       ELSE IF rounds < MaxRounds THEN Goto("tool")
       ELSE Raise
    /\ UNCHANGED <<config, control, lease>>

\* _call_and_log, and what its caller does with the answer.
SaveModelCall ==
    /\ pc = "log" /\ ~RaiseIfLeaseLost
    /\ AddCall(turn, IF reply = "error" THEN "failed" ELSE "completed")
    /\ IF Concurrent THEN Goto("close")
       ELSE IF reply \in {"error", "malformed"} THEN Raise
       ELSE IF reply # "tools" THEN Goto("close")
       ELSE IF rounds < MaxRounds THEN Goto("tool")
       ELSE Raise
    /\ UNCHANGED <<config, control, lease>>

OpenTool ==
    /\ pc = "tool" /\ ~RaiseIfLeaseLost
    /\ AddStep(turn, "tool", "running")
    /\ Goto("tool_close")
    /\ UNCHANGED <<config, control, lease>>

\* execute_tool answers with a text even when the tool fails.
CloseTool ==
    /\ pc = "tool_close" /\ ~RaiseIfLeaseLost
    /\ SetStep(Len(steps), "completed")
    /\ rounds' = rounds + 1
    /\ Goto("call")
    /\ UNCHANGED <<config, turn, own, hop, reply, call, outputs, lease>>

AfterClose ==
    IF Kind(turn) = "final" THEN "complete"
    ELSE IF reply = "pass" \/ (Concurrent /\ reply = "error") THEN "leave"
    ELSE "post"

CloseStep ==
    /\ pc = "close" /\ ~RaiseIfLeaseLost
    /\ SetStep(own[turn], IF reply = "error" THEN "failed" ELSE "completed")
    /\ Goto(AfterClose)
    /\ UNCHANGED <<config, control, lease>>

SendResultMessage ==
    /\ pc = "post" /\ ~RaiseIfLeaseLost
    /\ AddMessage(turn, "answer")
    /\ Goto(IF Kind(turn) = "final" THEN "done" ELSE "leave")
    /\ UNCHANGED <<config, control, lease>>

\* Mutant: a hop that passed is handed over.
HandedOverAlways == IF reply \in {"content", "pass"} THEN Append(outputs, turn) ELSE outputs

\* The results handed to later turns: no PASS, no failed sub-task.
HandedOver == IF reply = "content" THEN Append(outputs, turn) ELSE outputs

AnyFailed == \E w \in WorkerTurns : call[w] = "failed"

\* The first failed sub-task takes hop_ctx.
FirstError == Concurrent /\ reply = "error" /\ \A w \in WorkerTurns : w < turn => call[w] # "failed"

\* The agent rests (or, side by side, has failed), and the next turn begins.
Leave ==
    /\ pc = "leave"
    /\ SetAgent(turn, IF reply = "error" THEN "failed" ELSE "idle")
    /\ outputs' = HandedOver
    /\ own' = IF Relay THEN [own EXCEPT ![turn] = 0] ELSE own
    /\ hop' = IF FirstError THEN [turn |-> turn, step |-> own[turn]] ELSE hop
    /\ IF Kind(turn) = "final" THEN Goto("post") /\ UNCHANGED <<turn, reply>>
       ELSE IF turn = Last THEN Goto("complete") /\ UNCHANGED <<turn, reply>>
       ELSE IF Concurrent /\ turn < LastWorker
       THEN Goto("log") /\ turn' = turn + 1
            /\ reply' = IF call[turn + 1] = "failed" THEN "error" ELSE "content"
       ELSE IF Concurrent /\ AnyFailed
       THEN Raise /\ UNCHANGED <<turn, reply>>
       ELSE Goto("enter") /\ turn' = turn + 1 /\ UNCHANGED reply
    /\ UNCHANGED <<config, rounds, call, lease>>

\* The final turn's COMPLETED, or _finish_relay_task's. No lease guard.
Complete ==
    /\ pc = "complete"
    /\ SetTask("completed")
    /\ Goto(IF Relay THEN "done" ELSE "leave")
    /\ UNCHANGED <<config, control, lease>>
-----------------------------------------------------------------------------
(* Sub-tasks side by side: asyncio.gather under a semaphore.                     *)

\* Mutant: a call keeps its slot.
StartCallOnce(w) ==
    /\ pc = "gather"
    /\ call[w] = "waiting"
    /\ Cardinality({v \in WorkerTurns : call[v] # "waiting"}) < Parallelism
    /\ call' = [call EXCEPT ![w] = "calling"]
    /\ UNCHANGED <<config, pc, turn, own, hop, rounds, reply, outputs, rows, writer, lease, faults>>

StartCall(w) ==
    /\ pc = "gather"
    /\ call[w] = "waiting"
    /\ Cardinality({v \in WorkerTurns : call[v] = "calling"}) < Parallelism
    /\ call' = [call EXCEPT ![w] = "calling"]
    /\ UNCHANGED <<config, pc, turn, own, hop, rounds, reply, outputs, rows, writer, lease, faults>>

EndCall(w) ==
    /\ pc = "gather"
    /\ call[w] = "calling"
    /\ \E result \in {"answered", "failed"} : call' = [call EXCEPT ![w] = result]
    /\ UNCHANGED <<config, pc, turn, own, hop, rounds, reply, outputs, rows, writer, lease, faults>>

\* All calls have returned: their results are persisted in the plan's order.
Gathered ==
    /\ pc = "gather"
    /\ \A w \in WorkerTurns : call[w] \in {"answered", "failed"}
    /\ reply' = IF call[2] = "failed" THEN "error" ELSE "content"
    /\ Goto("log")
    /\ UNCHANGED <<config, turn, own, hop, rounds, call, outputs, rows, lease>>
-----------------------------------------------------------------------------
(* Failure: step, task, agent, message; with the session at hand, or once more  *)
(* from the start with a session of its own.                                   *)

Failing == {"fail_step", "fail_task", "fail_agent", "fail_post"}

FailStep ==
    /\ pc = "fail_step" /\ ~RaiseIfLeaseLost
    /\ IF HeldStep = 0 THEN AddStep(HeldTurn, "turn", "failed")
                       ELSE SetStep(HeldStep, "failed")
    /\ Goto("fail_task")
    /\ UNCHANGED <<config, control, lease>>

FailTask ==
    /\ pc = "fail_task"
    /\ SetTask("failed")
    /\ Goto(IF HeldTurn = 0 THEN "fail_post" ELSE "fail_agent")
    /\ UNCHANGED <<config, control, lease>>

FailAgent ==
    /\ pc = "fail_agent"
    /\ SetAgent(HeldTurn, "failed")
    /\ Goto("fail_post")
    /\ UNCHANGED <<config, control, lease>>

FailPost ==
    /\ pc = "fail_post" /\ ~RaiseIfLeaseLost
    /\ AddMessage(HeldTurn, "error")
    /\ Goto("done")
    /\ UNCHANGED <<config, control, lease>>

\* Mutant: no second session.
GiveUp == pc' = "done" /\ UNCHANGED writer

\* What _mark_failed_resilient does when _mark_failed returns False.
TryFallback ==
    IF writer = "own" THEN pc' = "fail_step" /\ writer' = "fallback"
                      ELSE pc' = "done" /\ UNCHANGED writer

\* _mark_failed catches the lease guard's exception like any other.
MarkFailedRefused ==
    /\ pc \in {"fail_step", "fail_post"}
    /\ RaiseIfLeaseLost
    /\ TryFallback
    /\ UNCHANGED <<config, control, rows, lease, faults>>
-----------------------------------------------------------------------------
(* The environment.                                                            *)

LoseLease ==
    /\ lease = "held" /\ pc \notin {"done", "gone"}
    /\ lease' = "lost"
    /\ UNCHANGED <<config, pc, control, rows, writer, faults>>

Guarded == {"open", "log", "tool", "tool_close", "close", "post"}
Writing == Guarded \cup {"announce", "leave", "complete"}

\* The write is refused, or it is committed and reading it back fails. The
\* session may be dead after it.
Committed ==
    \/ pc = "open"     /\ AddStep(turn, "turn", "running")
    \/ pc = "close"    /\ SetStep(own[turn], IF reply = "error" THEN "failed" ELSE "completed")
    \/ pc = "complete" /\ SetTask("completed")
    \/ pc = "post"     /\ AddMessage(turn, "answer")
    \/ UNCHANGED rows

WriteFails ==
    /\ pc \in Writing /\ ~(pc \in Guarded /\ RaiseIfLeaseLost)
    /\ faults < MaxFaults
    /\ faults' = faults + 1
    /\ Committed
    /\ pc' = "fail_step"
    /\ writer' \in {"own", "fallback"}
    /\ UNCHANGED <<config, control, lease>>

MarkFailedFails ==
    /\ pc \in Failing
    /\ faults < MaxFaults
    /\ faults' = faults + 1
    /\ TryFallback
    /\ UNCHANGED <<config, control, rows, lease>>
-----------------------------------------------------------------------------
Executor ==
    \/ LoadRelayAgents \/ Enter \/ Announce \/ OpenStep \/ ModelAnswers
    \/ SaveModelCall \/ OpenTool \/ CloseTool \/ CloseStep \/ SendResultMessage
    \/ Leave \/ Complete
    \/ \E w \in WorkerTurns : StartCall(w) \/ EndCall(w)
    \/ Gathered
    \/ FailStep \/ FailTask \/ FailAgent \/ FailPost \/ MarkFailedRefused
    \/ \E label \in Guarded : LeaveIfLost(label)

Next == Executor \/ LoseLease \/ WriteFails \/ MarkFailedFails

Spec == Init /\ [][Next]_vars

\* The event loop goes on, and a model call ends: it has a time limit.
FairSpec == Spec /\ WF_vars(Executor)
-----------------------------------------------------------------------------
(* Properties.                                                                 *)

Labels == {"load", "enter", "announce", "call", "gather", "leave", "complete",
           "done", "gone"} \cup Guarded \cup Failing

\* Types of the executor's variables and of the rows; a held step exists.
TypeOK ==
    /\ pc \in Labels /\ turn \in 0..Last
    /\ own \in [Turns -> 0..Len(steps)]
    /\ hop \in [turn : {0} \cup WorkerTurns, step : 0..Len(steps)]
    /\ rounds \in 0..MaxRounds
    /\ reply \in {"none", "content", "pass", "tools", "malformed", "error"}
    /\ call \in [WorkerTurns -> {"none", "waiting", "calling", "answered", "failed"}]
    /\ outputs \in Seq(Turns)
    /\ steps \in Seq([turn : 0..MaxTurn, kind : {"turn", "tool"},
                      status : {"running", "completed", "failed"}])
    /\ calls \in Seq([turn : Turns, status : {"completed", "failed"}])
    /\ messages \in Seq([turn : 0..MaxTurn, kind : {"answer", "error"}])
    /\ agents \in [Agents -> {"idle", "running", "failed"}]
    /\ task \in {"running", "completed", "failed"}
    /\ writer \in {"none", "own", "fallback"}
    /\ lease \in {"held", "lost"} /\ faults \in 0..MaxFaults

Answer(t) == [turn |-> t, kind |-> "answer"]

Steps(t, status) ==
    {i \in DOMAIN steps : steps[i].turn = t /\ steps[i].kind = "turn" /\ steps[i].status = status}
AnswerOf(t) == \E i \in DOMAIN messages : messages[i] = Answer(t)

\* What a turn is given when its model is called is what the task has posted in
\* the conversation: answers only, in the order of the turns, each from a completed
\* step. A hop left out has passed; no turn of a manager's task is left out.
HandOver ==
    pc \in {"call", "gather"} =>
        /\ messages = [i \in DOMAIN outputs |-> Answer(outputs[i])]
        /\ \A i, j \in DOMAIN outputs : i < j => outputs[i] < outputs[j]
        /\ \A t \in 1..(turn - 1) :
              /\ Cardinality(Steps(t, "completed")) = 1
              /\ ~Relay => AnswerOf(t)

\* The executor ended with its lease, and no write failed.
Undisturbed == pc = "done" /\ faults = 0 /\ lease = "held"

\* Side by side, a failed sub-task costs its siblings nothing: the answers that
\* came are completed steps with a message, the failures are failed steps, and
\* the task's error is the first failure's in the plan's order.
SiblingsKept ==
    Undisturbed /\ (\E w \in WorkerTurns : call[w] = "failed") =>
        /\ \A w \in WorkerTurns :
              /\ call[w] = "answered" => Steps(w, "completed") # {} /\ AnswerOf(w)
              /\ call[w] = "failed" => Steps(w, "failed") # {} /\ ~AnswerOf(w)
        /\ LET blamed == messages[Len(messages)].turn
           IN  /\ call[blamed] = "failed"
               /\ \A w \in WorkerTurns : call[w] = "failed" => blamed <= w

\* A task that failed blames the turn that failed, and leaves the other turns'
\* steps as they were: nobody and nothing is still "running".
BlamesTheFailedTurn ==
    task = "failed" =>
        /\ Steps(turn, "failed") # {}
        /\ \A t \in Turns : t # turn => Steps(t, "failed") = {}
        /\ \A i \in DOMAIN steps : steps[i].status # "running"
        /\ \A a \in Agents : agents[a] # "running"

\* It does in a relay, and in a manager's task up to its sub-tasks one by one.
FailureIsAttributed ==
    Undisturbed /\ absent = {} /\ mode # "parallel" /\ Kind(turn) \in {"hop", "plan", "worker"}
        => BlamesTheFailedTurn

\* "Failure attribution: the outer handler must point at the hop that failed,
\* not at the last sub-task" -- in review and final summary too.
FailureNeverBlamesAnother == Undisturbed /\ absent = {} => BlamesTheFailedTurn

\* COMPLETED means that every turn was taken: one completed step each, and an
\* answer in the conversation (a hop may pass; the final one's follows).
CompletedMeansAnswered ==
    task = "completed" /\ faults = 0 =>
        \A t \in 1..Last :
            /\ Cardinality(Steps(t, "completed")) = 1
            /\ Steps(t, "failed") \cup Steps(t, "running") = {}
            /\ ~Relay /\ t < Last => AnswerOf(t)

\* Every answer that was given reaches who works on, and the conversation, when
\* a turn is called and when the task is completed (_run_relay_task, line 396;
\* _run_multi_agent_task).
AnswersAreHandedOver == HandOver /\ CompletedMeansAnswered

\* A failure is recorded where it happened, and nowhere else: beside siblings
\* that answered, and in the outer handlers (line 1140, line 932).
FailuresStayApart == SiblingsKept /\ FailureIsAttributed

\* A run that reaches its end has settled the task, whichever single write
\* failed, and also when the lease was lost on the way: the fallback session is
\* the second chance.
OneFaultIsSurvived ==
    pc = "done" /\ (faults = 0 \/ (faults = 1 /\ lease = "held")) => task # "running"

\* Every run ends, also when tools never converge and calls wait for a slot.
RunEnds == <>(pc \in {"done", "gone"})
=============================================================================
