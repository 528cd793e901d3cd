------------------------- MODULE CollaborationProofs -------------------------
(***************************************************************************)
(* The safety properties of Collaboration, for any length of the chain and  *)
(* of the plan, any parallelism, rounds of tools and number of faults.      *)
(***************************************************************************)
EXTENDS Collaboration, FiniteSetTheorems, SequenceTheorems, TLAPS

-----------------------------------------------------------------------------
(* The turns                                                                *)

LEMMA Counts ==
  /\ Subtasks \in Nat /\ Subtasks >= 1 /\ Hops \in Nat /\ Hops >= 2 /\ MaxRounds \in Nat /\ MaxFaults \in Nat
  /\ WorkerTurns = 2..(Subtasks + 1) /\ LastWorker = Subtasks + 1 /\ Final = Subtasks + 3
  /\ MaxTurn \in Nat /\ Hops <= MaxTurn /\ Final <= MaxTurn /\ Turns = 1..MaxTurn /\ Agents = Turns
  BY CountsAssumption DEF WorkerTurns, LastWorker, Final, MaxTurn, Turns, Agents

\* Whose turn a turn is.
LEMMA Kinds ==
  ASSUME NEW t \in Int
  PROVE  /\ Kind(t) = "hop" <=> Relay
         /\ Kind(t) = "plan" <=> ~Relay /\ t = 1
         /\ Kind(t) = "worker" <=> ~Relay /\ t \in 2..(Subtasks + 1)
         /\ Kind(t) = "review" <=> ~Relay /\ t = Subtasks + 2
         /\ Kind(t) = "final" <=> ~Relay /\ t \notin 1..(Subtasks + 2)
  BY Counts DEF Kind

\* The sub-tasks are run side by side, and it is the turn of one.
Side == mode = "parallel" /\ Subtasks > 1 /\ turn \in 2..(Subtasks + 1)

LEMMA SideIsConcurrent == turn \in Int => (Concurrent <=> Side)
  BY Kinds DEF Concurrent, Side, Relay

-----------------------------------------------------------------------------
(* Types                                                                    *)

Stopped == Failing \cup {"done", "gone"}
Running == pc \notin Stopped

StepRow == [turn : 0..MaxTurn, kind : {"turn", "tool"}, status : {"running", "completed", "failed"}]

RowsTyped ==
    /\ steps \in Seq(StepRow)
    /\ calls \in Seq([turn : Turns, status : {"completed", "failed"}])
    /\ messages \in Seq([turn : 0..MaxTurn, kind : {"answer", "error"}])
    /\ agents \in [Agents -> {"idle", "running", "failed"}]
    /\ task \in {"running", "completed", "failed"}

\* How the task runs, and a turn once it has begun.
TurnTyped ==
    /\ mode \in Modes /\ agentOf \in [Turns -> Agents]
    /\ turn \in 0..Last
    /\ turn = 0 => Relay /\ pc \in {"load", "done"} \cup Failing

\* The step that a turn or a handler holds exists.
HeldTyped ==
    /\ own \in [Turns -> 0..Len(steps)]
    /\ hop \in [turn : {0} \cup WorkerTurns, step : 0..Len(steps)]

TalkTyped ==
    /\ rounds \in 0..MaxRounds
    /\ pc \in {"tool", "tool_close"} => rounds < MaxRounds
    /\ reply \in {"none", "content", "pass", "tools", "malformed", "error"}
    /\ call \in [WorkerTurns -> {"none", "waiting", "calling", "answered", "failed"}]
    /\ outputs \in Seq(Turns)

EndTyped ==
    /\ pc \in Labels
    /\ writer \in {"none", "own", "fallback"} /\ lease \in {"held", "lost"} /\ faults \in 0..MaxFaults

Typed == RowsTyped /\ TurnTyped /\ HeldTyped /\ TalkTyped /\ EndTyped

LEMMA SequenceOf ==
  ASSUME NEW s, NEW n \in Nat, NEW R, s = [i \in 1..n |-> s[i]], \A i \in 1..n : s[i] \in R
  PROVE  s \in Seq(R) /\ DOMAIN s = 1..n /\ Len(s) = n
  <1>1. [i \in 1..n |-> s[i]] \in [1..n -> R]
    OBVIOUS
  <1>2. s \in [1..n -> R]
    BY <1>1
  <1> QED  BY <1>2

\* What each of the writes does to the rows.
LEMMA SetAgentWrites ==
  ASSUME RowsTyped, TurnTyped, NEW t \in Turns, NEW status \in {"idle", "running", "failed"}, SetAgent(t, status)
  PROVE  /\ RowsTyped' /\ UNCHANGED <<steps, calls, messages, task>>
         /\ agentOf[t] \in Agents /\ agents'[agentOf[t]] = status
         /\ \A a \in Agents : a # agentOf[t] => agents'[a] = agents[a]
  BY DEF RowsTyped, TurnTyped, SetAgent

LEMMA AddStepWrites ==
  ASSUME RowsTyped, NEW t \in 0..MaxTurn, NEW kind \in {"turn", "tool"},
         NEW status \in {"running", "completed", "failed"}, AddStep(t, kind, status)
  PROVE  /\ RowsTyped' /\ UNCHANGED <<calls, messages, agents, task>>
         /\ Len(steps) \in Nat /\ DOMAIN steps = 1..Len(steps) /\ DOMAIN steps' = 1..(Len(steps) + 1)
         /\ Len(steps') = Len(steps) + 1
         /\ steps'[Len(steps) + 1] = [turn |-> t, kind |-> kind, status |-> status]
         /\ \A i \in DOMAIN steps : steps'[i] = steps[i]
  <1>1. [turn |-> t, kind |-> kind, status |-> status] \in StepRow
    BY DEF StepRow
  <1> QED  BY <1>1 DEF RowsTyped, AddStep

LEMMA SetStepWrites ==
  ASSUME RowsTyped, NEW k \in Nat, NEW status \in {"running", "completed", "failed"}, SetStep(k, status)
  PROVE  /\ RowsTyped' /\ UNCHANGED <<calls, messages, agents, task>>
         /\ Len(steps') = Len(steps) /\ DOMAIN steps' = DOMAIN steps
         /\ \A i \in DOMAIN steps : steps'[i] = IF i = k THEN [steps[i] EXCEPT !.status = status] ELSE steps[i]
         /\ \A i \in DOMAIN steps : steps'[i].turn = steps[i].turn /\ steps'[i].kind = steps[i].kind
         /\ k \in DOMAIN steps => steps'[k].status = status
  <1>0. steps \in Seq(StepRow)
    BY DEF RowsTyped
  <1> PICK n \in Nat : n = Len(steps)
    BY <1>0
  <1>1. DOMAIN steps = 1..n /\ \A i \in 1..n : steps[i] \in StepRow
    BY <1>0
  <1>2. steps' = [steps EXCEPT ![k].status = status]
    BY DEF SetStep
  <1>3. \A i \in 1..n : steps'[i] = IF i = k THEN [steps[i] EXCEPT !.status = status] ELSE steps[i]
    BY <1>1, <1>2
  <1>4. DOMAIN steps' = 1..n
    BY <1>1, <1>2
  <1>5. ASSUME NEW i \in 1..n
        PROVE  /\ steps'[i] \in StepRow /\ steps'[i].turn = steps[i].turn /\ steps'[i].kind = steps[i].kind
               /\ i = k => steps'[i].status = status
    BY <1>1, <1>3 DEF StepRow
  <1>6. steps' = [i \in 1..n |-> steps'[i]]
    BY <1>1, <1>2
  <1>7. steps' \in Seq(StepRow) /\ Len(steps') = n
    BY <1>5, <1>6, SequenceOf
  <1>8. RowsTyped' /\ UNCHANGED <<calls, messages, agents, task>>
    BY <1>7 DEF RowsTyped, SetStep
  <1> QED  BY <1>1, <1>3, <1>4, <1>5, <1>7, <1>8

LEMMA AddMessageWrites ==
  ASSUME RowsTyped, NEW t \in 0..MaxTurn, NEW kind \in {"answer", "error"}, AddMessage(t, kind)
  PROVE  /\ RowsTyped' /\ UNCHANGED <<steps, calls, agents, task>>
         /\ Len(messages) \in Nat /\ DOMAIN messages = 1..Len(messages)
         /\ DOMAIN messages' = 1..(Len(messages) + 1) /\ Len(messages') = Len(messages) + 1
         /\ messages' = Append(messages, [turn |-> t, kind |-> kind])
         /\ messages'[Len(messages) + 1] = [turn |-> t, kind |-> kind]
         /\ \A i \in DOMAIN messages : messages'[i] = messages[i]
  BY DEF RowsTyped, AddMessage

LEMMA AddCallWrites ==
  ASSUME RowsTyped, NEW t \in Turns, NEW status \in {"completed", "failed"}, AddCall(t, status)
  PROVE  RowsTyped' /\ UNCHANGED <<steps, messages, agents, task>>
  BY DEF RowsTyped, AddCall

LEMMA SetTaskWrites ==
  ASSUME RowsTyped, NEW status \in {"completed", "failed"}, SetTask(status)
  PROVE  RowsTyped' /\ UNCHANGED <<steps, calls, messages, agents>> /\ task' = status
  BY DEF RowsTyped, SetTask

LEMMA LastTurn == TurnTyped => Last \in 1..MaxTurn /\ (Relay => Last = Hops) /\ (~Relay => Last = Subtasks + 3)
  BY Counts DEF Last

\* A longer list of steps has the steps that are held.
LEMMA HeldRest ==
  ASSUME HeldTyped, Len(steps) \in Nat, Len(steps') \in Nat, Len(steps) <= Len(steps'),
         UNCHANGED <<own, hop>>
  PROVE  HeldTyped'
  <1> PICK m \in Nat, n \in Nat : m = Len(steps) /\ n = Len(steps')
    OBVIOUS
  <1>1. \A k \in 0..m : k \in 0..n
    OBVIOUS
  <1>2. own \in [Turns -> 0..n]
    BY <1>1 DEF HeldTyped
  <1>3. hop \in [turn : {0} \cup WorkerTurns, step : 0..n]
    BY <1>1 DEF HeldTyped
  <1> QED  BY <1>2, <1>3 DEF HeldTyped

LEMMA TypedRest == Typed /\ UNCHANGED vars => Typed'
  BY DEF vars, config, control, rows, Typed, RowsTyped, TurnTyped, HeldTyped, TalkTyped, EndTyped, Last, Relay

\* The turn and what is said in it stay the same; the next operation may not.
LEMMA TurnRest ==
  ASSUME TurnTyped, TalkTyped, UNCHANGED <<config, turn, rounds, reply, call, outputs>>,
         turn # 0 \/ pc' \in {"load", "done"} \cup Failing, pc' \in {"tool", "tool_close"} => rounds < MaxRounds
  PROVE  TurnTyped' /\ TalkTyped'
  BY DEF config, TurnTyped, TalkTyped, Last, Relay

LEMMA TypedTurn ==
  ASSUME Typed,
         \/ LoadRelayAgents \/ Enter \/ Announce \/ ModelAnswers \/ SaveModelCall
         \/ OpenTool \/ CloseTool \/ CloseStep \/ SendResultMessage \/ Complete
  PROVE  Typed'
  <1> USE Counts DEF Typed, EndTyped
  <1>0. /\ turn \in Int /\ Len(steps) \in Nat /\ (turn # 0 => turn \in Turns) /\ Turns \subseteq 0..MaxTurn
        /\ steps' = steps /\ UNCHANGED <<own, hop>> => HeldTyped'
    <2>1. Len(steps) \in Nat
      BY DEF RowsTyped
    <2>2. turn \in Int /\ (turn # 0 => turn \in Turns) /\ Turns \subseteq 0..MaxTurn
      <3> PICK last \in 1..MaxTurn : last = Last
        BY LastTurn
      <3>1. turn \in 0..last
        BY DEF TurnTyped
      <3>2. MaxTurn \in Nat /\ Turns = 1..MaxTurn
        OBVIOUS
      <3> HIDE Counts DEF Typed, EndTyped
      <3> QED  BY <3>1, <3>2
    <2>3. steps' = steps /\ UNCHANGED <<own, hop>> => HeldTyped'
      BY DEF HeldTyped
    <2> QED  BY <2>1, <2>2, <2>3
  <1>1. CASE LoadRelayAgents
    <2>1. RowsTyped' /\ HeldTyped'
      BY <1>0, <1>1 DEF LoadRelayAgents, rows, RowsTyped
    <2>2. TurnTyped' /\ TalkTyped'
      <3>1. (pc' = "fail_step" /\ turn' = turn) \/ (pc' = "enter" /\ turn' = 1)
        BY <1>1 DEF LoadRelayAgents, Raise, Goto
      <3>2. UNCHANGED <<config, rounds, reply, call, outputs>> /\ Last' = Last /\ Relay' = Relay
        BY <1>1 DEF LoadRelayAgents, config, Last, Relay
      <3>3. turn' \in 0..Last /\ (turn' = 0 => turn = 0)
        <4> PICK last \in 1..MaxTurn : last = Last
          BY LastTurn
        <4>1. turn \in 0..last
          BY DEF TurnTyped
        <4> QED  BY <3>1, <4>1
      <3>4. TurnTyped'
        BY <3>1, <3>2, <3>3 DEF TurnTyped, config, Failing
      <3> QED  BY <3>1, <3>2, <3>4 DEF TalkTyped
    <2>3. EndTyped'
      BY <1>1 DEF LoadRelayAgents, Raise, Goto, Labels, Failing
    <2> QED  BY <2>1, <2>2, <2>3
  <1>2. CASE Enter
    <2>1. RowsTyped' /\ EndTyped'
      BY <1>2 DEF Enter, rows, RowsTyped, Raise, Goto, Labels, Failing
    <2>2. HeldTyped'
      <3>1. hop' = hop \/ (Kind(turn) = "worker" /\ hop' = [turn |-> turn, step |-> IF Concurrent THEN hop.step ELSE 0])
        BY <1>2 DEF Enter
      <3>2. steps' = steps /\ own' = own
        BY <1>2 DEF Enter, rows
      <3>3. Kind(turn) = "worker" => turn \in WorkerTurns
        BY <1>0, Kinds
      <3>4. hop' \in [turn : {0} \cup WorkerTurns, step : 0..Len(steps)]
        BY <1>0, <3>1, <3>3 DEF HeldTyped
      <3> QED  BY <3>2, <3>4 DEF HeldTyped
    <2>3. turn # 0
      BY <1>2 DEF Enter, TurnTyped, Failing
    <2>4. TurnTyped' /\ TalkTyped'
      BY <1>2, <2>3, TurnRest DEF Enter, Raise, Goto
    <2> QED  BY <2>1, <2>2, <2>4
  <1>3. ASSUME pc \notin {"load", "done"} \cup Failing PROVE turn \in Turns
    BY <1>0, <1>3 DEF TurnTyped
  <1>4. CASE Announce
    <2>1. turn \in Turns /\ SetAgent(turn, "running") /\ UNCHANGED <<own, hop>>
      BY <1>3, <1>4 DEF Announce, Failing, control
    <2>2. RowsTyped' /\ steps' = steps
      BY <2>1, SetAgentWrites
    <2>3. HeldTyped' /\ TurnTyped' /\ TalkTyped'
      BY <1>0, <1>4, <2>1, <2>2, TurnRest DEF Announce, control, Goto
    <2> QED  BY <1>4, <2>2, <2>3 DEF Announce, Goto, Labels, Guarded
  <1>5. CASE ModelAnswers
    <2>1. RowsTyped' /\ HeldTyped'
      BY <1>0, <1>5 DEF ModelAnswers, rows, RowsTyped
    <2>2. TurnTyped' /\ TalkTyped' /\ EndTyped'
      BY <1>5 DEF ModelAnswers, Replies, config, TurnTyped, TalkTyped, Goto, Failing, Last, Relay, Labels, Guarded
    <2> QED  BY <2>1, <2>2
  <1>6. CASE SaveModelCall
    <2>1. turn \in Turns /\ AddCall(turn, IF reply = "error" THEN "failed" ELSE "completed") /\ UNCHANGED control
      BY <1>3, <1>6 DEF SaveModelCall, Failing
    <2>2. RowsTyped' /\ steps' = steps
      BY <2>1, AddCallWrites
    <2>3. pc' \in {"close", "fail_step", "tool"} /\ (pc' = "tool" => rounds < MaxRounds) /\ writer' \in {writer, "own"}
          /\ UNCHANGED <<config, lease, faults>>
      BY <1>6 DEF SaveModelCall, Raise, Goto
    <2>4. HeldTyped' /\ TurnTyped' /\ TalkTyped'
      BY <1>0, <2>1, <2>2, <2>3, TurnRest DEF control
    <2> QED  BY <2>2, <2>3, <2>4 DEF Labels, Guarded, Failing
  <1>7. CASE OpenTool
    <2>1. turn \in Turns /\ AddStep(turn, "tool", "running") /\ UNCHANGED control
      BY <1>3, <1>7 DEF OpenTool, Failing
    <2>2. RowsTyped' /\ Len(steps') = Len(steps) + 1
      BY <1>0, <2>1, AddStepWrites
    <2>3. HeldTyped'
      BY <1>0, <2>1, <2>2, HeldRest DEF control
    <2>4. TurnTyped' /\ TalkTyped'
      BY <1>7, <2>1, TurnRest DEF OpenTool, control, Goto, TalkTyped
    <2> QED  BY <1>7, <2>2, <2>3, <2>4 DEF OpenTool, Goto, Labels, Guarded
  <1>8. CASE CloseTool
    <2>1. turn \in Turns /\ SetStep(Len(steps), "completed") /\ rounds' = rounds + 1
          /\ UNCHANGED <<config, turn, own, hop, reply, call, outputs, lease>>
      BY <1>3, <1>8 DEF CloseTool, Failing
    <2>2. RowsTyped' /\ Len(steps') = Len(steps)
      BY <1>0, <2>1, SetStepWrites
    <2>3. HeldTyped'
      BY <1>0, <2>1, <2>2, HeldRest
    <2>4. TurnTyped' /\ TalkTyped' /\ EndTyped'
      <3>1. rounds + 1 \in 0..MaxRounds /\ pc' = "call" /\ UNCHANGED <<writer, faults>>
        BY <1>8 DEF CloseTool, Goto, TalkTyped
      <3>2. TalkTyped' /\ EndTyped'
        BY <2>1, <3>1 DEF TalkTyped, Labels
      <3>3. turn # 0
        BY <2>1
      <3>4. UNCHANGED <<mode, agentOf, turn, Last>>
        BY <2>1 DEF config, Last, Relay
      <3> QED  BY <3>2, <3>3, <3>4 DEF TurnTyped
    <2> QED  BY <2>2, <2>3, <2>4
  <1>9. CASE CloseStep
    <2>1. /\ turn \in Turns /\ SetStep(own[turn], IF reply = "error" THEN "failed" ELSE "completed")
          /\ UNCHANGED control /\ own[turn] \in Nat
      BY <1>3, <1>9 DEF CloseStep, Failing, HeldTyped
    <2>2. RowsTyped' /\ Len(steps') = Len(steps)
      BY <2>1, SetStepWrites
    <2>3. pc' \in {"complete", "leave", "post"} /\ UNCHANGED <<config, writer, lease, faults>>
      BY <1>9 DEF CloseStep, AfterClose, Goto
    <2>4. HeldTyped' /\ TurnTyped' /\ TalkTyped'
      BY <1>0, <2>1, <2>2, <2>3, HeldRest, TurnRest DEF control
    <2> QED  BY <2>2, <2>3, <2>4 DEF Labels, Guarded
  <1>10. CASE SendResultMessage
    <2>1. turn \in Turns /\ AddMessage(turn, "answer") /\ UNCHANGED control
      BY <1>3, <1>10 DEF SendResultMessage, Failing
    <2>2. RowsTyped' /\ steps' = steps
      BY <1>0, <2>1, AddMessageWrites
    <2>3. pc' \in {"done", "leave"} /\ UNCHANGED <<config, writer, lease, faults>>
      BY <1>10 DEF SendResultMessage, Goto
    <2>4. HeldTyped' /\ TurnTyped' /\ TalkTyped'
      BY <1>0, <2>1, <2>2, <2>3, TurnRest DEF control
    <2> QED  BY <2>2, <2>3, <2>4 DEF Labels
  <1>11. CASE Complete
    <2>1. turn \in Turns /\ SetTask("completed") /\ UNCHANGED control
      BY <1>3, <1>11 DEF Complete, Failing
    <2>2. RowsTyped' /\ steps' = steps
      BY <2>1, SetTaskWrites
    <2>3. pc' \in {"done", "leave"} /\ UNCHANGED <<config, writer, lease, faults>>
      BY <1>11 DEF Complete, Goto
    <2>4. HeldTyped' /\ TurnTyped' /\ TalkTyped'
      BY <1>0, <2>1, <2>2, <2>3, TurnRest DEF control
    <2> QED  BY <2>2, <2>3, <2>4 DEF Labels
  <1> QED  BY <1>1, <1>2, <1>4, <1>5, <1>6, <1>7, <1>8, <1>9, <1>10, <1>11

LEMMA TypedOpen ==
  ASSUME Typed, OpenStep
  PROVE  Typed'
  <1> USE DEF Typed
  <1> PICK n \in Nat : n = Len(steps)
    BY DEF RowsTyped
  <1> PICK last \in 1..MaxTurn : last = Last /\ (~Relay => last = Subtasks + 3)
    BY LastTurn
  <1>0. turn \in 1..last /\ turn \in Turns /\ turn \in 0..MaxTurn /\ UNCHANGED <<config, reply, outputs, lease>>
    <2>1. turn \in 0..last /\ turn # 0
      BY DEF OpenStep, TurnTyped, Failing
    <2> QED  BY <2>1, Counts DEF OpenStep
  <1>1. RowsTyped' /\ Len(steps') = n + 1
    BY <1>0, AddStepWrites DEF OpenStep
  <1>2. HeldTyped'
    <2>1. own' = [own EXCEPT ![turn] = n + 1]
          /\ hop' = IF Kind(turn) = "worker" THEN [hop EXCEPT !.step = n + 1] ELSE hop
      BY DEF OpenStep
    <2>2. \A k \in 0..n : k \in 0..(n + 1)
      OBVIOUS
    <2>3. own' \in [Turns -> 0..(n + 1)]
      <3>1. own \in [Turns -> 0..n] /\ n + 1 \in 0..(n + 1)
        BY DEF HeldTyped
      <3> QED  BY <2>1, <2>2, <3>1
    <2>4. hop' \in [turn : {0} \cup WorkerTurns, step : 0..(n + 1)]
      <3>1. hop \in [turn : {0} \cup WorkerTurns, step : 0..n] /\ n + 1 \in 0..(n + 1)
        BY DEF HeldTyped
      <3>2. hop' = [hop EXCEPT !.step = n + 1] \/ hop' = hop
        BY <2>1
      <3>3. [hop EXCEPT !.step = n + 1] \in [turn : {0} \cup WorkerTurns, step : 0..(n + 1)]
        BY <2>2, <3>1
      <3>4. hop \in [turn : {0} \cup WorkerTurns, step : 0..(n + 1)]
        BY <2>2, <3>1
      <3> QED  BY <3>2, <3>3, <3>4
    <2> QED  BY <1>1, <2>3, <2>4 DEF HeldTyped
  <1>3. /\ pc' \in {"call", "enter", "gather"} /\ UNCHANGED <<writer, faults>>
        /\ turn' = turn \/ turn' = 2 \/ turn' = turn + 1
        /\ turn' # turn => Side /\ (turn' = turn + 1 => turn < Subtasks + 1)
        /\ call' = call \/ call' = [w \in WorkerTurns |-> "waiting"]
    BY <1>0, SideIsConcurrent, Counts DEF OpenStep, Goto
  <1>4. turn' \in 1..last
    BY <1>0, <1>3, Counts DEF Side, Relay
  <1>5. TurnTyped'
    <2>1. UNCHANGED <<mode, agentOf, Last>>
      BY <1>0 DEF config, Last, Relay
    <2> QED  BY <1>4, <2>1 DEF TurnTyped
  <1>6. TalkTyped'
    <2>1. rounds' = 0 /\ 0 \in 0..MaxRounds /\ UNCHANGED <<reply, outputs>>
      BY <1>0, Counts DEF OpenStep
    <2>2. call' \in [WorkerTurns -> {"none", "waiting", "calling", "answered", "failed"}]
      BY <1>3 DEF TalkTyped
    <2> QED  BY <1>3, <2>1, <2>2 DEF TalkTyped
  <1>7. EndTyped'
    BY <1>0, <1>3 DEF OpenStep, EndTyped, Labels
  <1> QED  BY <1>1, <1>2, <1>5, <1>6, <1>7

LEMMA TypedLeave ==
  ASSUME Typed, Leave
  PROVE  Typed'
  <1> USE DEF Typed
  <1> PICK last \in 1..MaxTurn : last = Last /\ (~Relay => last = Subtasks + 3)
    BY LastTurn
  <1>0. turn \in 1..last /\ turn \in Turns /\ UNCHANGED <<config, rounds, call, lease>>
    <2>1. turn \in 0..last /\ turn # 0
      BY DEF Leave, TurnTyped, Failing
    <2> QED  BY <2>1, Counts DEF Leave
  <1>1. RowsTyped' /\ steps' = steps
    BY <1>0, SetAgentWrites DEF Leave
  <1>2. HeldTyped'
    <2>1. own' \in [Turns -> 0..Len(steps)]
      <3>1. own' = own \/ own' = [own EXCEPT ![turn] = 0]
        BY DEF Leave
      <3>2. 0 \in 0..Len(steps)
        BY DEF RowsTyped
      <3> QED  BY <3>1, <3>2 DEF HeldTyped
    <2>2. hop' = hop \/ (Side /\ hop' = [turn |-> turn, step |-> own[turn]])
      BY <1>0, SideIsConcurrent DEF Leave, FirstError
    <2>3. hop' \in [turn : {0} \cup WorkerTurns, step : 0..Len(steps)]
      BY <1>0, <2>2, Counts DEF HeldTyped, Side
    <2> QED  BY <1>1, <2>1, <2>3 DEF HeldTyped
  <1>3. /\ pc' \in {"post", "complete", "log", "fail_step", "enter"} /\ UNCHANGED faults /\ writer' \in {writer, "own"}
        /\ turn' = turn \/ (turn # last /\ turn' = turn + 1)
        /\ reply' \in {reply, "error", "content"} /\ outputs' \in {outputs, Append(outputs, turn)}
    BY <1>0, SideIsConcurrent, Counts DEF Leave, Goto, Raise, HandedOver, Side, Relay
  <1>4. turn' \in 1..last
    BY <1>0, <1>3
  <1>5. TurnTyped'
    <2>1. UNCHANGED <<mode, agentOf, Last>>
      BY <1>0 DEF config, Last, Relay
    <2> QED  BY <1>4, <2>1 DEF TurnTyped
  <1>6. TalkTyped'
    BY <1>0, <1>3 DEF TalkTyped
  <1>7. EndTyped'
    BY <1>0, <1>3 DEF EndTyped, Labels, Guarded, Failing
  <1> QED  BY <1>1, <1>2, <1>5, <1>6, <1>7

\* The calls side by side; the environment; and a run that stops.
LEMMA TypedAside ==
  ASSUME Typed,
         \/ \E w \in WorkerTurns : StartCall(w) \/ EndCall(w)
         \/ Gathered \/ MarkFailedRefused \/ LoseLease \/ MarkFailedFails
         \/ \E label \in Guarded : LeaveIfLost(label)
  PROVE  Typed' /\ UNCHANGED <<config, rows, turn, own, hop, outputs>>
  <1> USE DEF Typed
  <1>1. /\ UNCHANGED <<config, rows, turn, own, hop, rounds, outputs>>
        /\ call' = call \/ \E w \in WorkerTurns, s \in {"calling", "answered", "failed"} : call' = [call EXCEPT ![w] = s]
        /\ reply' \in {reply, "error", "content"}
        /\ pc' = pc \/ (pc \notin {"load", "done"} \cup Failing /\ pc' \in {"log", "gone"})
                    \/ (pc \in Failing /\ pc' \in {"fail_step", "done"})
    BY DEF StartCall, EndCall, Gathered, MarkFailedRefused, LoseLease, MarkFailedFails, LeaveIfLost,
           TryFallback, Goto, config, rows, control, Failing, Guarded
  <1>2. RowsTyped' /\ HeldTyped'
    BY <1>1 DEF rows, RowsTyped, HeldTyped
  <1>3. TurnTyped'
    BY <1>1 DEF TurnTyped, config, Last, Relay, Failing
  <1>4. TalkTyped'
    BY <1>1 DEF TalkTyped, Failing
  <1>5. lease' \in {"held", "lost"} /\ writer' \in {"none", "own", "fallback"} /\ faults' \in 0..MaxFaults
    <2>1. /\ lease' \in {lease, "lost"} /\ writer' \in {writer, "fallback"}
          /\ faults' = faults \/ (faults < MaxFaults /\ faults' = faults + 1)
      BY DEF StartCall, EndCall, Gathered, MarkFailedRefused, LoseLease, MarkFailedFails, LeaveIfLost,
             TryFallback, Goto
    <2> QED  BY <2>1, Counts DEF EndTyped
  <1>6. pc' \in Labels
    BY <1>1 DEF EndTyped, Labels, Failing, Guarded
  <1> QED  BY <1>1, <1>2, <1>3, <1>4, <1>5, <1>6 DEF EndTyped

\* Whom the handlers of a failure hold.
LEMMA HeldIsTyped ==
  ASSUME Typed
  PROVE  HeldTurn \in 0..MaxTurn /\ (HeldTurn # 0 => HeldTurn \in Turns) /\ HeldStep \in 0..Len(steps)
  <1> USE DEF Typed
  <1> PICK last \in 1..MaxTurn : last = Last
    BY LastTurn
  <1>1. turn \in 0..last /\ turn \in 0..MaxTurn /\ (turn # 0 => turn \in Turns)
    <2>1. turn \in 0..last
      BY DEF TurnTyped
    <2> QED  BY <2>1, Counts
  <1>2. hop.turn = 0 \/ hop.turn \in Turns
    <2>1. hop.turn \in {0} \cup WorkerTurns
      BY DEF HeldTyped
    <2>2. WorkerTurns \subseteq Turns
      BY Counts
    <2> QED  BY <2>1, <2>2
  <1>3. HeldTurn \in 0..MaxTurn /\ (HeldTurn # 0 => HeldTurn \in Turns)
    BY <1>1, <1>2, Counts DEF HeldTurn
  <1>4. HeldStep \in 0..Len(steps)
    <2>1. hop.step \in 0..Len(steps) /\ 0 \in 0..Len(steps) /\ \A t \in Turns : own[t] \in 0..Len(steps)
      BY DEF HeldTyped, RowsTyped
    <2> QED  BY <1>1, <2>1 DEF HeldStep
  <1> QED  BY <1>3, <1>4

LEMMA TypedFail ==
  ASSUME Typed, FailStep \/ FailTask \/ FailAgent \/ FailPost
  PROVE  Typed' /\ UNCHANGED <<config, turn, own, hop, outputs, call, lease, faults, writer>>
  <1> USE DEF Typed
  <1> PICK n \in Nat : n = Len(steps)
    BY DEF RowsTyped
  <1>1. /\ UNCHANGED <<config, turn, own, hop, rounds, reply, call, outputs, lease, faults, writer>>
        /\ pc' \in {"done"} \cup Failing
    BY DEF FailStep, FailTask, FailAgent, FailPost, control, Goto, Failing
  <1>2. RowsTyped' /\ (Len(steps') = n \/ Len(steps') = n + 1)
    <2>1. CASE FailStep
      <3>1. AddStep(HeldTurn, "turn", "failed") \/ SetStep(HeldStep, "failed")
        BY <2>1 DEF FailStep
      <3>2. HeldStep \in Nat
        BY HeldIsTyped
      <3> QED  BY <3>1, <3>2, HeldIsTyped, AddStepWrites, SetStepWrites
    <2>2. CASE FailTask
      BY <2>2, SetTaskWrites DEF FailTask
    <2>3. CASE FailAgent
      <3>1. HeldTurn # 0 => RowsTyped' /\ steps' = steps
        BY <2>3, HeldIsTyped, SetAgentWrites DEF FailAgent
      <3>2. HeldTurn = 0 => RowsTyped' /\ steps' = steps
        <4> SUFFICES ASSUME HeldTurn = 0 PROVE RowsTyped' /\ steps' = steps
          OBVIOUS
        <4>1. agents' = [agents EXCEPT ![agentOf[0]] = "failed"] /\ UNCHANGED <<steps, calls, messages, task>>
          BY <2>3 DEF FailAgent, SetAgent
        <4> QED  BY <4>1 DEF RowsTyped
      <3> QED  BY <3>1, <3>2
    <2>4. CASE FailPost
      BY <2>4, HeldIsTyped, AddMessageWrites DEF FailPost
    <2> QED  BY <2>1, <2>2, <2>3, <2>4
  <1>3. HeldTyped'
    BY <1>1, <1>2, HeldRest
  <1>4. TurnTyped' /\ TalkTyped'
    BY <1>1, TurnRest DEF Failing
  <1>5. EndTyped'
    BY <1>1 DEF EndTyped, Labels, Failing
  <1> QED  BY <1>1, <1>2, <1>3, <1>4, <1>5

LEMMA TypedFault ==
  ASSUME Typed, WriteFails
  PROVE  Typed'
  <1> USE DEF Typed
  <1> PICK n \in Nat : n = Len(steps)
    BY DEF RowsTyped
  <1>1. /\ UNCHANGED <<config, turn, own, hop, rounds, reply, call, outputs, lease>>
        /\ pc \in Writing /\ pc' = "fail_step" /\ writer' \in {"own", "fallback"}
        /\ faults < MaxFaults /\ faults' = faults + 1
    BY DEF WriteFails, control
  <1>2. turn \in Turns /\ turn \in 0..MaxTurn
    <2> PICK last \in 1..MaxTurn : last = Last
      BY LastTurn
    <2>1. turn \in 0..last /\ turn # 0
      BY <1>1 DEF TurnTyped, Writing, Guarded, Failing
    <2> QED  BY <2>1, Counts
  <1>3. RowsTyped' /\ (Len(steps') = n \/ Len(steps') = n + 1)
    <2>1. UNCHANGED rows => RowsTyped' /\ Len(steps') = n
      BY DEF rows, RowsTyped
    <2>2. own[turn] \in Nat
      BY <1>2 DEF HeldTyped
    <2> QED  BY <1>2, <2>1, <2>2, AddStepWrites, SetStepWrites, SetTaskWrites, AddMessageWrites DEF WriteFails, Committed
  <1>4. HeldTyped'
    BY <1>1, <1>3, HeldRest
  <1>5. TurnTyped' /\ TalkTyped'
    BY <1>1, TurnRest DEF Failing
  <1>6. EndTyped'
    BY <1>1, Counts DEF EndTyped, Labels, Failing
  <1> QED  BY <1>3, <1>4, <1>5, <1>6

LEMMA TypedStep == Typed /\ [Next]_vars => Typed'
  BY TypedRest, TypedTurn, TypedOpen, TypedLeave, TypedAside, TypedFail, TypedFault DEF Next, Executor

LEMMA TypedInit == Init => Typed
  <1> SUFFICES ASSUME Init PROVE Typed
    OBVIOUS
  <1> USE Counts DEF Init
  <1>1. RowsTyped
    BY DEF RowsTyped
  <1>2. agentOf \in [Turns -> Agents]
    BY DEF Seats
  <1>3. TurnTyped
    BY <1>2, CountsAssumption DEF TurnTyped, Last, Relay
  <1>4. HeldTyped /\ TalkTyped
    BY DEF HeldTyped, TalkTyped, Relay
  <1>5. EndTyped
    BY DEF EndTyped, Labels
  <1> QED  BY <1>1, <1>3, <1>4, <1>5 DEF Typed

\* The rows have the columns the code reads, and what a handler holds exists.
THEOREM TypeCorrect == Spec => []TypeOK
  <1>1. Typed => TypeOK
    BY DEF Typed, RowsTyped, TurnTyped, HeldTyped, TalkTyped, EndTyped, TypeOK, StepRow
  <1> QED  BY <1>1, TypedInit, TypedStep, PTL DEF Spec

-----------------------------------------------------------------------------
(* A run that ends has settled its task                                       *)

IsFinal == ~Relay /\ turn \notin 1..(Subtasks + 2)

\* The fallback session is there for a lost lease or a fault only, and whoever
\* writes the last message has written the task's status.
FaultInv ==
    /\ Running => writer = "none" /\ faults = 0
    /\ pc \in Failing => writer \in {"own", "fallback"}
    /\ writer = "fallback" => lease = "lost" \/ faults >= 1
    /\ pc \in {"fail_agent", "fail_post"} => task = "failed"
    /\ pc \in {"leave", "post"} /\ IsFinal => task = "completed"
    /\ pc = "done" /\ (faults = 0 \/ (faults = 1 /\ lease = "held")) => task # "running"

LEMMA FaultStep ==
  ASSUME Typed, FaultInv, [Next]_vars
  PROVE  FaultInv'
  <1> USE DEF FaultInv, Running, Stopped, Failing
  <1>0. /\ turn \in Int /\ faults \in Nat
        /\ Kind(turn) = "final" <=> IsFinal
        /\ UNCHANGED <<mode, turn>> => (IsFinal' <=> IsFinal)
    <2>1. turn \in Int /\ faults \in Nat
      BY LastTurn, Counts DEF Typed, TurnTyped, EndTyped
    <2> QED  BY <2>1, Kinds DEF IsFinal, Relay
  <1>1. CASE UNCHANGED vars
    BY <1>0, <1>1 DEF vars, config, control, rows
  <1>2. CASE LoadRelayAgents \/ Enter \/ Announce \/ OpenStep \/ ModelAnswers \/ OpenTool \/ CloseTool
    BY <1>2 DEF LoadRelayAgents, Enter, Announce, OpenStep, ModelAnswers, OpenTool, CloseTool, Goto, Raise
  <1>3. CASE SaveModelCall
    BY <1>3 DEF SaveModelCall, Goto, Raise
  <1>4. CASE CloseStep
    <2>1. (pc' = "complete" \/ (pc' \in {"leave", "post"} /\ ~IsFinal)) /\ pc = "close"
          /\ UNCHANGED <<mode, turn, writer, faults, lease>>
      BY <1>0, <1>4 DEF CloseStep, AfterClose, Goto, config, control
    <2> QED  BY <1>0, <2>1
  <1>5. CASE SendResultMessage
    BY <1>0, <1>5 DEF SendResultMessage, AddMessage, Goto, config, control
  <1>6. CASE Leave
    <2>1. /\ pc = "leave" /\ task' = task /\ lease' = lease /\ faults' = faults
          /\ \/ IsFinal /\ pc' = "post" /\ UNCHANGED <<mode, turn, writer>>
             \/ pc' = "fail_step" /\ writer' = "own"
             \/ pc' \in {"complete", "log", "enter"} /\ writer' = writer
      BY <1>0, <1>6 DEF Leave, SetAgent, Goto, Raise, config
    <2> QED  BY <1>0, <2>1
  <1>7. CASE Complete
    BY <1>7 DEF Complete, SetTask, Goto
  <1>8. CASE (\E w \in WorkerTurns : StartCall(w) \/ EndCall(w)) \/ Gathered
    BY <1>8 DEF StartCall, EndCall, Gathered, Goto
  <1>9. CASE FailStep
    BY <1>9 DEF FailStep, AddStep, SetStep, Goto, control
  <1>10. CASE FailTask \/ FailAgent \/ FailPost
    BY <1>10 DEF FailTask, FailAgent, FailPost, SetTask, SetAgent, AddMessage, Goto
  <1>11. CASE MarkFailedRefused
    BY <1>11 DEF MarkFailedRefused, TryFallback, RaiseIfLeaseLost
  <1>12. CASE \E label \in Guarded : LeaveIfLost(label)
    BY <1>12 DEF LeaveIfLost, Guarded
  <1>13. CASE LoseLease
    BY <1>0, <1>13 DEF LoseLease, config, control, rows
  <1>14. CASE WriteFails
    BY <1>0, <1>14 DEF WriteFails, Writing, Guarded
  <1>15. CASE MarkFailedFails
    BY <1>0, <1>15 DEF MarkFailedFails, TryFallback
  <1> QED  BY <1>1, <1>2, <1>3, <1>4, <1>5, <1>6, <1>7, <1>8, <1>9, <1>10, <1>11, <1>12, <1>13, <1>14, <1>15
           DEF Next, Executor

\* A run that reaches its end has settled the task, whichever single write
\* failed, and when the lease was lost on the way (_mark_failed_resilient), for
\* any number of turns.
THEOREM FaultIsSurvived == Spec => []OneFaultIsSurvived
  <1>1. Init => FaultInv
    BY DEF Init, FaultInv, Running, Stopped, Failing
  <1>2. FaultInv => OneFaultIsSurvived
    BY DEF FaultInv, OneFaultIsSurvived
  <1> QED  BY <1>1, <1>2, TypedInit, TypedStep, FaultStep, PTL DEF Spec

-----------------------------------------------------------------------------
(* Where a running executor is                                                *)

Starting   == {"load", "enter", "announce", "open"}
Leaving    == {"complete", "post", "leave"}
Collecting == Side /\ pc \in {"log", "close", "post", "leave"}

\* The calls made side by side, the replies that they leave, and the last turn.
CallsInv ==
    /\ pc = "load" <=> turn = 0
    /\ pc = "gather" => Side /\ turn = 2 /\ \A w \in WorkerTurns : call[w] # "none"
    /\ pc \in {"call", "tool", "tool_close"} => ~Side
    /\ pc = "complete" => turn = Last /\ ~Side
    /\ Collecting =>
          /\ \A w \in WorkerTurns : call[w] \in {"answered", "failed"}
          /\ reply = IF call[turn] = "failed" THEN "error" ELSE "content"
    /\ pc # "gather" /\ ~Collecting => \A w \in WorkerTurns : call[w] \in {"none", "answered"}
    /\ ~Side /\ pc \in {"close"} \cup Leaving => reply \in {"content", "pass"}
    /\ reply = "pass" => Relay
    /\ pc = "log" => reply # "none"
    /\ pc = "post" => reply = "content"
    /\ task # "running" => task = "completed" /\ pc \in {"leave", "post"} /\ ~Relay /\ turn = Last

\* What has become of the step of turn t.
Stage(t) ==
    IF t < turn
    THEN IF ~Side \/ t = 1 THEN "completed"
         ELSE IF pc \in Starting THEN "running"
         ELSE IF call[t] = "failed" THEN "failed" ELSE "completed"
    ELSE IF t = turn
    THEN IF pc \in Starting THEN "none"
         ELSE IF pc \notin Leaving THEN "running"
         ELSE IF reply = "error" THEN "failed" ELSE "completed"
    ELSE IF Side /\ t <= Subtasks + 1 /\ pc \notin Starting THEN "running" ELSE "none"

\* A turn begins, or the run stops, where no step changes its stage.
LEMMA CallsBegin ==
  ASSUME Typed, Running, CallsInv, Running', LoadRelayAgents \/ Enter \/ Announce
  PROVE  CallsInv' /\ \A t \in Turns : Stage(t)' = Stage(t)
  <1> USE DEF Running, Stopped, Failing, CallsInv, Collecting, Leaving, Starting
  <1>0. turn \in Nat /\ 0 \notin Turns /\ Turns \subseteq Nat
    BY Counts, LastTurn DEF Typed, TurnTyped
  <1>1. CASE LoadRelayAgents
    <2>1. /\ pc = "load" /\ pc' = "enter" /\ turn = 0 /\ turn' = 1 /\ Relay
          /\ UNCHANGED <<mode, call, reply, task, Relay>>
      BY <1>1 DEF LoadRelayAgents, Goto, Raise, config, rows, Typed, TurnTyped, Relay
    <2>2. ~Side /\ ~Side'
      BY <2>1 DEF Side, Relay
    <2>3. CallsInv'
      BY <2>1, <2>2
    <2>4. ASSUME NEW t \in Turns PROVE Stage(t)' = Stage(t)
      BY <1>0, <2>1, <2>2 DEF Stage
    <2> QED  BY <2>3, <2>4
  <1>2. CASE Enter \/ Announce
    <2>1. /\ pc \in {"enter", "announce"} /\ pc' \in {"announce", "open"}
          /\ UNCHANGED <<mode, turn, call, reply, task, Relay, Side>>
      BY <1>2 DEF Enter, Announce, SetAgent, Goto, Raise, config, rows, control, Relay, Side
    <2>2. CallsInv'
      BY <2>1
    <2>3. ASSUME NEW t \in Turns PROVE Stage(t)' = Stage(t)
      BY <1>0, <2>1 DEF Stage
    <2> QED  BY <2>2, <2>3
  <1> QED  BY <1>1, <1>2

LEMMA CallsOpen ==
  ASSUME Typed, Running, CallsInv, OpenStep
  PROVE  /\ CallsInv' /\ Stage(turn) = "none" /\ turn \in Turns
         /\ \A t \in Turns : Stage(t)' = IF t = turn THEN "running" ELSE Stage(t)
  <1> USE DEF Running, Stopped, Failing, CallsInv, Collecting, Leaving, Starting
  <1>0. /\ turn \in Turns /\ turn \in Nat /\ turn >= 1 /\ Turns \subseteq Nat \ {0}
        /\ Subtasks \in Nat /\ WorkerTurns = 2..(Subtasks + 1) /\ (Concurrent <=> Side)
    <2> PICK last \in 1..MaxTurn : last = Last
      BY LastTurn DEF Typed
    <2>1. turn \in 0..last /\ turn # 0
      BY DEF OpenStep, Typed, TurnTyped
    <2> QED  BY <2>1, Counts, SideIsConcurrent
  <1>1. /\ pc = "open" /\ UNCHANGED <<mode, reply, task, Relay, Last>>
        /\ \/ ~Side /\ pc' = "call" /\ UNCHANGED <<turn, call>>
           \/ Side /\ turn < Subtasks + 1 /\ pc' = "enter" /\ turn' = turn + 1 /\ call' = call
           \/ Side /\ turn = Subtasks + 1 /\ pc' = "gather" /\ turn' = 2 /\ call' = [w \in WorkerTurns |-> "waiting"]
    BY <1>0, Counts DEF OpenStep, AddStep, Goto, config, Relay, Last, Side
  <1>2. \/ ~Side /\ ~Side' /\ turn' = turn
        \/ Side /\ Side'
    BY <1>0, <1>1 DEF Side
  <1>3. CallsInv'
    BY <1>0, <1>1, <1>2
  <1>4. Stage(turn) = "none"
    BY <1>0, <1>1 DEF Stage
  <1>5. ASSUME NEW t \in Turns
        PROVE  Stage(t)' = IF t = turn THEN "running" ELSE Stage(t)
    BY <1>0, <1>1, <1>2 DEF Stage, Side
  <1> QED  BY <1>0, <1>3, <1>4, <1>5

LEMMA CallsTalk ==
  ASSUME Typed, Running, CallsInv, Running',
         ModelAnswers \/ SaveModelCall \/ OpenTool \/ CloseTool \/ SendResultMessage \/ Complete
  PROVE  CallsInv' /\ \A t \in Turns : Stage(t)' = Stage(t)
  <1> USE DEF Running, Stopped, Failing, CallsInv, Collecting, Leaving, Starting
  <1>0. /\ turn \in Nat /\ 0 \notin Turns /\ Turns \subseteq Nat /\ (Concurrent <=> Side)
        /\ Kind(turn) = "hop" <=> Relay
        /\ Kind(turn) = "final" <=> ~Relay /\ (turn = Last \/ turn = 0)
    <2> PICK last \in 1..MaxTurn : last = Last /\ (~Relay => last = Subtasks + 3)
      BY LastTurn DEF Typed
    <2>1. turn \in 0..last
      BY DEF Typed, TurnTyped
    <2> QED  BY <2>1, Counts, Kinds, SideIsConcurrent
  <1>1. CASE ModelAnswers
    <2>1. /\ pc = "call" /\ pc' = "log" /\ reply' # "none" /\ (reply' = "pass" => Relay)
          /\ UNCHANGED <<mode, turn, call, task, Relay, Side, Last>>
      BY <1>0, <1>1 DEF ModelAnswers, Replies, Goto, config, rows, Relay, Side, Last
    <2>2. CallsInv'
      BY <2>1
    <2>3. ASSUME NEW t \in Turns PROVE Stage(t)' = Stage(t)
      BY <1>0, <2>1 DEF Stage
    <2> QED  BY <2>2, <2>3
  <1>2. CASE SaveModelCall \/ OpenTool \/ CloseTool
    <2>1. /\ UNCHANGED <<mode, turn, call, reply, task, Relay, Side, Last>>
          /\ \/ pc = "log" /\ pc' = "close" /\ (~Side => reply \notin {"error", "malformed", "tools"})
             \/ pc = "log" /\ pc' = "tool" /\ ~Side
             \/ pc = "tool" /\ pc' = "tool_close"
             \/ pc = "tool_close" /\ pc' = "call"
      <3>1. UNCHANGED <<mode, turn, call, reply, task>>
        BY <1>2 DEF SaveModelCall, OpenTool, CloseTool, AddCall, AddStep, SetStep, config, control
      <3>2. UNCHANGED <<Relay, Side, Last>>
        BY <3>1 DEF Relay, Side, Last
      <3>3. SaveModelCall => pc = "log" /\ \/ pc' = "close" /\ (~Side => reply \notin {"error", "malformed", "tools"})
                                           \/ pc' = "tool" /\ ~Side
        <4> SUFFICES ASSUME SaveModelCall
                     PROVE  pc = "log" /\ \/ pc' = "close" /\ (~Side => reply \notin {"error", "malformed", "tools"})
                                          \/ pc' = "tool" /\ ~Side
          OBVIOUS
        <4>1. pc = "log" /\ pc' # "fail_step"
          BY DEF SaveModelCall
        <4>2. Side => pc' = "close"
          BY <1>0 DEF SaveModelCall, Goto
        <4>3. ~Side => \/ pc' = "close" /\ reply \notin {"error", "malformed", "tools"}
                       \/ pc' = "tool"
          BY <1>0, <4>1 DEF SaveModelCall, Goto, Raise
        <4> QED  BY <4>1, <4>2, <4>3
      <3>4. (OpenTool => pc = "tool" /\ pc' = "tool_close") /\ (CloseTool => pc = "tool_close" /\ pc' = "call")
        BY DEF OpenTool, CloseTool, Goto
      <3> QED  BY <1>2, <3>1, <3>2, <3>3, <3>4
    <2>2. CallsInv'
      BY <2>1 DEF Typed, TalkTyped
    <2>3. ASSUME NEW t \in Turns PROVE Stage(t)' = Stage(t)
      BY <1>0, <2>1 DEF Stage
    <2> QED  BY <2>2, <2>3
  <1>3. CASE SendResultMessage \/ Complete
    <2>1. /\ pc \in {"post", "complete"} /\ pc' = "leave"
          /\ UNCHANGED <<mode, turn, call, reply, Relay, Side, Last>>
          /\ pc = "post" => task' = task /\ Kind(turn) # "final"
          /\ pc = "complete" => task' = "completed" /\ ~Relay
      BY <1>3 DEF SendResultMessage, Complete, AddMessage, SetTask, Goto, config, rows, control, Relay, Side, Last
    <2>2. CallsInv'
      BY <1>0, <2>1
    <2>3. ASSUME NEW t \in Turns PROVE Stage(t)' = Stage(t)
      BY <1>0, <2>1 DEF Stage
    <2> QED  BY <2>2, <2>3
  <1> QED  BY <1>1, <1>2, <1>3

LEMMA CallsLeave ==
  ASSUME Typed, Running, CallsInv, Running', CloseStep \/ Leave
  PROVE  /\ CallsInv' /\ turn \in Turns
         /\ CloseStep => /\ Stage(turn) = "running"
                         /\ \A t \in Turns : Stage(t)' = IF t # turn THEN Stage(t) ELSE
                                                         IF reply = "error" THEN "failed" ELSE "completed"
         /\ Leave => \A t \in Turns : Stage(t)' = Stage(t)
  <1> USE DEF Running, Stopped, Failing, CallsInv, Collecting, Leaving, Starting
  <1>0. /\ turn \in Turns /\ turn \in Nat /\ turn >= 1 /\ 0 \notin Turns /\ Turns \subseteq Nat
        /\ (Concurrent <=> Side)
        /\ Kind(turn) = "hop" <=> Relay
        /\ Kind(turn) = "final" <=> ~Relay /\ turn = Last
        /\ turn <= Last /\ Last \in Nat /\ Subtasks \in Nat
        /\ Side => Last = Subtasks + 3 /\ ~Relay
        /\ LastWorker = Subtasks + 1 /\ WorkerTurns = 2..(Subtasks + 1)
    <2> PICK last \in 1..MaxTurn : last = Last /\ (~Relay => last = Subtasks + 3)
      BY LastTurn DEF Typed
    <2>1. turn \in 0..last /\ turn # 0
      BY DEF Typed, TurnTyped, CloseStep, Leave
    <2>2. Side => ~Relay
      BY DEF Side, Relay
    <2> QED  BY <2>1, <2>2, Counts, Kinds, SideIsConcurrent
  <1>1. CASE CloseStep
    <2>1. /\ pc = "close" /\ UNCHANGED <<mode, turn, call, reply, task>>
          /\ pc' = IF Kind(turn) = "final" THEN "complete"
                   ELSE IF reply = "pass" \/ (Side /\ reply = "error") THEN "leave" ELSE "post"
      BY <1>0, <1>1 DEF CloseStep, AfterClose, SetStep, Goto, config, control
    <2>2. UNCHANGED <<Relay, Side, Last>>
      BY <2>1 DEF Relay, Side, Last
    <2>3. Kind(turn) = "final" => ~Side
      BY <1>0 DEF Side
    <2>4. CallsInv'
      BY <1>0, <2>1, <2>2, <2>3
    <2>5. Stage(turn) = "running"
      BY <1>0, <2>1 DEF Stage
    <2>6. ASSUME NEW t \in Turns
          PROVE  Stage(t)' = IF t # turn THEN Stage(t) ELSE IF reply = "error" THEN "failed" ELSE "completed"
      <3>1. pc' \in {"complete", "leave", "post"}
        BY <2>1
      <3> QED  BY <1>0, <2>1, <2>2, <3>1 DEF Stage
    <2>7. ~Leave
      BY <2>1 DEF Leave
    <2> QED  BY <1>0, <2>4, <2>5, <2>6, <2>7
  <1>2. CASE Leave
    <2>1. /\ pc = "leave" /\ UNCHANGED <<mode, call, task>>
          /\ \/ Kind(turn) = "final" /\ pc' = "post" /\ UNCHANGED <<turn, reply>>
             \/ Kind(turn) # "final" /\ turn = Last /\ pc' = "complete" /\ UNCHANGED <<turn, reply>>
             \/ /\ Side /\ turn < Subtasks + 1 /\ pc' = "log" /\ turn' = turn + 1
                /\ reply' = IF call[turn + 1] = "failed" THEN "error" ELSE "content"
             \/ /\ turn # Last /\ ~(Side /\ turn < Subtasks + 1) /\ ~(Side /\ AnyFailed)
                /\ pc' = "enter" /\ turn' = turn + 1 /\ reply' = reply
      BY <1>0, <1>2 DEF Leave, SetAgent, Goto, Raise, config
    <2>2. UNCHANGED <<Relay, Last>>
      BY <2>1 DEF Relay, Last
    <2>3. CASE turn' = turn
      <3>1. Side' <=> Side
        BY <2>1, <2>3 DEF Side
      <3>2. ~Side
        BY <1>0, <2>1, <2>3 DEF Side
      <3>3. CallsInv'
        BY <1>0, <2>1, <2>2, <2>3, <3>1, <3>2
      <3>4. ASSUME NEW t \in Turns PROVE Stage(t)' = Stage(t)
        BY <1>0, <2>1, <2>3, <3>1 DEF Stage
      <3> QED  BY <1>0, <2>1, <3>3, <3>4 DEF CloseStep
    <2>4. CASE Side /\ turn < Subtasks + 1
      <3>1. /\ pc' = "log" /\ turn' = turn + 1 /\ Side' /\ turn \in WorkerTurns /\ turn + 1 \in WorkerTurns
            /\ reply' = IF call[turn + 1] = "failed" THEN "error" ELSE "content"
        BY <1>0, <2>1, <2>4 DEF Side
      <3>2. CallsInv'
        BY <1>0, <2>1, <2>2, <2>4, <3>1
      <3>3. reply = "error" <=> call[turn] = "failed"
        BY <2>1, <2>4
      <3>4. ASSUME NEW t \in Turns PROVE Stage(t)' = Stage(t)
        BY <1>0, <2>1, <2>4, <3>1, <3>3 DEF Stage, Side
      <3> QED  BY <1>0, <2>1, <3>2, <3>4 DEF CloseStep
    <2>5. CASE turn' # turn /\ ~(Side /\ turn < Subtasks + 1)
      <3>1. /\ pc' = "enter" /\ turn' = turn + 1 /\ reply' = reply /\ turn # Last /\ ~(Side /\ AnyFailed)
        BY <2>1, <2>5
      <3>2. /\ Side => /\ turn = Subtasks + 1 /\ ~Side' /\ reply = "content"
                       /\ \A w \in WorkerTurns : call[w] = "answered"
        <4> SUFFICES ASSUME Side PROVE turn = Subtasks + 1 /\ ~Side' /\ reply = "content"
                                       /\ \A w \in WorkerTurns : call[w] = "answered"
          OBVIOUS
        <4>1. turn = Subtasks + 1 /\ turn \in WorkerTurns
          BY <1>0, <2>5 DEF Side
        <4>2. \A w \in WorkerTurns : call[w] = "answered"
          BY <2>1, <3>1 DEF AnyFailed
        <4>3. ~Side'
          BY <1>0, <3>1, <4>1 DEF Side
        <4> QED  BY <2>1, <4>1, <4>2, <4>3
      <3>3. CallsInv'
        BY <1>0, <2>1, <2>2, <3>1, <3>2
      <3>4. reply # "error" /\ ~Side /\ Side' => turn = 1
        BY <1>0, <2>1, <3>1 DEF Side
      <3>5. reply # "error"
        BY <2>1, <3>2
      <3>6. ASSUME NEW t \in Turns PROVE Stage(t)' = Stage(t)
        <4>1. CASE Side
          <5>1. \A w \in 2..(Subtasks + 1) : call[w] # "failed"
            BY <1>0, <3>2, <4>1
          <5> QED  BY <1>0, <2>1, <3>1, <3>2, <3>5, <4>1, <5>1 DEF Stage
        <4>2. CASE ~Side
          BY <1>0, <2>1, <3>1, <3>4, <3>5, <4>2 DEF Stage
        <4> QED  BY <4>1, <4>2
      <3> QED  BY <1>0, <2>1, <3>3, <3>6 DEF CloseStep
    <2> QED  BY <2>3, <2>4, <2>5
  <1> QED  BY <1>1, <1>2

LEMMA CallsAside ==
  ASSUME Typed, Running, CallsInv, Running',
         (\E w \in WorkerTurns : StartCall(w) \/ EndCall(w)) \/ Gathered \/ LoseLease
  PROVE  CallsInv' /\ \A t \in Turns : Stage(t)' = Stage(t)
  <1> USE DEF Running, Stopped, Failing, CallsInv, Collecting, Leaving, Starting
  <1>0. /\ turn \in Nat /\ 0 \notin Turns /\ Turns \subseteq Nat
        /\ WorkerTurns = 2..(Subtasks + 1) /\ Subtasks \in Nat /\ Subtasks >= 1
        /\ call \in [WorkerTurns -> {"none", "waiting", "calling", "answered", "failed"}]
    <2> PICK last \in 1..MaxTurn : last = Last
      BY LastTurn DEF Typed
    <2>1. turn \in 0..last
      BY DEF Typed, TurnTyped
    <2> QED  BY <2>1, Counts DEF Typed, TalkTyped
  <1>1. UNCHANGED <<mode, turn, task, Relay, Side, Last>>
    BY DEF StartCall, EndCall, Gathered, LoseLease, Goto, config, control, rows, Relay, Side, Last
  <1>2. CASE \E w \in WorkerTurns : StartCall(w) \/ EndCall(w)
    <2>1. pc = "gather" /\ pc' = "gather" /\ reply' = reply
      BY <1>2 DEF StartCall, EndCall
    <2>2. \A w \in WorkerTurns : call'[w] # "none"
      BY <1>0, <1>2, <2>1 DEF StartCall, EndCall
    <2>3. CallsInv'
      BY <1>1, <2>1, <2>2
    <2>4. ASSUME NEW t \in Turns PROVE Stage(t)' = Stage(t)
      BY <1>0, <1>1, <2>1 DEF Stage
    <2> QED  BY <2>3, <2>4
  <1>3. CASE Gathered
    <2>1. /\ pc = "gather" /\ pc' = "log" /\ call' = call /\ Side /\ turn = 2
          /\ reply' = IF call[2] = "failed" THEN "error" ELSE "content"
          /\ \A w \in WorkerTurns : call[w] \in {"answered", "failed"}
      BY <1>3 DEF Gathered, Goto
    <2>2. CallsInv'
      BY <1>1, <2>1
    <2>3. ASSUME NEW t \in Turns PROVE Stage(t)' = Stage(t)
      BY <1>0, <1>1, <2>1 DEF Stage
    <2> QED  BY <2>2, <2>3
  <1>4. CASE LoseLease
    <2>1. UNCHANGED <<pc, call, reply>>
      BY <1>4 DEF LoseLease, control
    <2>2. CallsInv'
      BY <1>1, <2>1
    <2>3. ASSUME NEW t \in Turns PROVE Stage(t)' = Stage(t)
      BY <1>1, <2>1 DEF Stage
    <2> QED  BY <2>2, <2>3
  <1> QED  BY <1>2, <1>3, <1>4

LEMMA ConfigRest == [Next]_vars => UNCHANGED <<mode, agentOf, absent, Relay, Last>>
  <1> SUFFICES ASSUME [Next]_vars PROVE UNCHANGED <<mode, agentOf, absent>>
    BY DEF Relay, Last
  <1> USE DEF config
  <1>1. CASE UNCHANGED vars
    BY <1>1 DEF vars
  <1>2. CASE LoadRelayAgents \/ Enter \/ Announce \/ OpenStep \/ ModelAnswers \/ SaveModelCall
    BY <1>2 DEF LoadRelayAgents, Enter, Announce, OpenStep, ModelAnswers, SaveModelCall
  <1>3. CASE OpenTool \/ CloseTool \/ CloseStep \/ SendResultMessage \/ Leave \/ Complete
    BY <1>3 DEF OpenTool, CloseTool, CloseStep, SendResultMessage, Leave, Complete
  <1>4. CASE (\E w \in WorkerTurns : StartCall(w) \/ EndCall(w)) \/ Gathered
    BY <1>4 DEF StartCall, EndCall, Gathered
  <1>5. CASE FailStep \/ FailTask \/ FailAgent \/ FailPost \/ MarkFailedRefused
             \/ \E label \in Guarded : LeaveIfLost(label)
    BY <1>5 DEF FailStep, FailTask, FailAgent, FailPost, MarkFailedRefused, LeaveIfLost
  <1>6. CASE LoseLease \/ WriteFails \/ MarkFailedFails
    BY <1>6 DEF LoseLease, WriteFails, MarkFailedFails
  <1> QED  BY <1>1, <1>2, <1>3, <1>4, <1>5, <1>6 DEF Next, Executor

\* The steps that keep a running executor running.
LEMMA RunningStep ==
  ASSUME FaultInv, Running, Running', [Next]_vars
  PROVE  \/ UNCHANGED vars
         \/ LoadRelayAgents \/ Enter \/ Announce \/ OpenStep \/ ModelAnswers
         \/ SaveModelCall \/ OpenTool \/ CloseTool \/ CloseStep \/ SendResultMessage \/ Leave \/ Complete
         \/ (\E w \in WorkerTurns : StartCall(w) \/ EndCall(w)) \/ Gathered \/ LoseLease
  BY DEF Running, Stopped, Failing, Next, Executor, FailStep, FailTask, FailAgent, FailPost, MarkFailedRefused,
         LeaveIfLost, WriteFails, MarkFailedFails

\* A run that has stopped stays so.
LEMMA RunningBack == [Next]_vars /\ Running' => Running
  <1> USE DEF Running, Stopped, Failing
  <1>1. UNCHANGED vars => UNCHANGED pc
    BY DEF vars
  <1>2. FailStep \/ FailTask \/ FailAgent \/ FailPost \/ MarkFailedRefused \/ MarkFailedFails => ~Running'
    BY DEF FailStep, FailTask, FailAgent, FailPost, MarkFailedRefused, MarkFailedFails, TryFallback, Goto
  <1>3. LoseLease => pc' = pc
    BY DEF LoseLease
  <1>4. \/ LoadRelayAgents \/ Enter \/ Announce \/ OpenStep \/ ModelAnswers
        \/ SaveModelCall \/ OpenTool \/ CloseTool \/ CloseStep \/ SendResultMessage \/ Leave \/ Complete
        \/ (\E w \in WorkerTurns : StartCall(w) \/ EndCall(w)) \/ Gathered
        \/ (\E label \in Guarded : LeaveIfLost(label)) \/ WriteFails
        => Running
    BY DEF LoadRelayAgents, Enter, Announce, OpenStep, ModelAnswers, SaveModelCall, OpenTool, CloseTool, CloseStep,
           SendResultMessage, Leave, Complete, StartCall, EndCall, Gathered, LeaveIfLost, WriteFails, Guarded, Writing
  <1> QED  BY <1>1, <1>2, <1>3, <1>4 DEF Next, Executor

LEMMA CallsStep ==
  ASSUME Typed, FaultInv, Running, Running', CallsInv, [Next]_vars
  PROVE  CallsInv'
  <1>1. CASE UNCHANGED vars
    BY <1>1 DEF vars, config, control, rows, CallsInv, Collecting, Side, Relay, Last, Leaving
  <1> QED  BY <1>1, RunningStep, CallsBegin, CallsOpen, CallsTalk, CallsLeave, CallsAside

-----------------------------------------------------------------------------
(* Steps                                                                      *)

OfTurn(i, t) == steps[i].turn = t /\ steps[i].kind = "turn"

\* Turn t has the one step of its stage, and the executor knows where it is while
\* it is running (in a manager's task: for good).
HasStep(t) ==
    /\ \A i \in DOMAIN steps : OfTurn(i, t) => steps[i].status = Stage(t)
    /\ \A i, j \in DOMAIN steps : OfTurn(i, t) /\ OfTurn(j, t) => i = j
    /\ Stage(t) # "none" => \E i \in DOMAIN steps : OfTurn(i, t)
    /\ own[t] # 0 => OfTurn(own[t], t)
    /\ Stage(t) # "none" /\ (~Relay \/ Stage(t) = "running") => own[t] # 0

\* The steps of tools are over, but for the last.
StepsInv ==
    /\ \A i \in DOMAIN steps : steps[i].turn \in Turns
    /\ \A i \in DOMAIN steps : steps[i].kind = "tool" =>
          steps[i].status = "completed" \/ (pc = "tool_close" /\ i = Len(steps))
    /\ pc = "tool_close" => Len(steps) > 0 /\ steps[Len(steps)].kind = "tool"
    /\ \A t \in Turns : HasStep(t)

\* The steps stay the same, and so do the stages.
LEMMA StepsRest ==
  ASSUME Typed, StepsInv, UNCHANGED <<steps, Relay>>, pc' = "tool_close" <=> pc = "tool_close",
         \A t \in Turns : Stage(t)' = Stage(t),
         \A t \in Turns : own'[t] = own[t] \/ (Relay /\ own'[t] = 0 /\ Stage(t) # "running")
  PROVE  StepsInv'
  <1>1. ASSUME NEW t \in Turns PROVE HasStep(t)'
    <2>1. HasStep(t) /\ Stage(t)' = Stage(t)
      BY DEF StepsInv
    <2> QED  BY <2>1 DEF HasStep, OfTurn
  <1> QED  BY <1>1 DEF StepsInv

\* A step is added: of a turn that had none, or of a tool.
LEMMA StepsAdd ==
  ASSUME Typed, StepsInv, UNCHANGED Relay, NEW u \in Turns, NEW kind \in {"turn", "tool"}, AddStep(u, kind, "running"),
         pc # "tool_close", pc' = "tool_close" <=> kind = "tool",
         kind = "tool" => own' = own /\ \A t \in Turns : Stage(t)' = Stage(t),
         kind = "turn" => /\ own' = [own EXCEPT ![u] = Len(steps) + 1] /\ Stage(u) = "none"
                          /\ \A t \in Turns : Stage(t)' = IF t = u THEN "running" ELSE Stage(t)
  PROVE  StepsInv'
  <1> PICK n \in Nat : n = Len(steps)
    BY DEF Typed, RowsTyped
  <1>0. own \in [Turns -> 0..n] /\ u \in 0..MaxTurn
    BY Counts DEF Typed, HeldTyped
  <1>1. /\ DOMAIN steps = 1..n /\ DOMAIN steps' = 1..(n + 1) /\ Len(steps') = n + 1
        /\ steps'[n + 1] = [turn |-> u, kind |-> kind, status |-> "running"]
        /\ \A i \in 1..n : steps'[i] = steps[i]
    BY <1>0, AddStepWrites DEF Typed
  <1>2. \A i \in 1..(n + 1) : i \in 1..n \/ i = n + 1
    OBVIOUS
  <1>3. steps'[n + 1].turn = u /\ steps'[n + 1].kind = kind /\ steps'[n + 1].status = "running"
    BY <1>1
  <1>4. ASSUME NEW t \in Turns, ~(kind = "turn" /\ t = u) PROVE HasStep(t)'
    <2>1. HasStep(t) /\ Stage(t)' = Stage(t) /\ own'[t] = own[t] /\ own[t] \in 0..n
      BY <1>0, <1>4 DEF StepsInv
    <2>2. \A i \in 1..n : OfTurn(i, t)' <=> OfTurn(i, t)
      BY <1>1 DEF OfTurn
    <2>3. ~OfTurn(n + 1, t)'
      BY <1>3, <1>4 DEF OfTurn
    <2>4. own[t] # 0 => own[t] \in 1..n
      BY <2>1
    <2> QED  BY <1>1, <1>2, <2>1, <2>2, <2>3, <2>4 DEF HasStep
  <1>5. ASSUME kind = "turn" PROVE HasStep(u)'
    <2>1. HasStep(u) /\ Stage(u)' = "running" /\ own'[u] = n + 1 /\ Stage(u) = "none"
      BY <1>0, <1>5 DEF StepsInv
    <2>2. \A i \in 1..n : ~OfTurn(i, u)
      <3>1. ASSUME NEW i \in 1..n, OfTurn(i, u) PROVE FALSE
        <4>1. steps[i].status = "none"
          BY <1>1, <2>1, <3>1 DEF HasStep
        <4>2. steps[i] \in StepRow
          BY <1>1 DEF Typed, RowsTyped
        <4> QED  BY <4>1, <4>2 DEF StepRow
      <3> QED  BY <3>1
    <2>3. \A i \in 1..n : ~OfTurn(i, u)'
      BY <1>1, <2>2 DEF OfTurn
    <2>4. OfTurn(n + 1, u)' /\ n + 1 # 0 /\ n + 1 \in 1..(n + 1)
      BY <1>3, <1>5 DEF OfTurn
    <2> QED  BY <1>1, <1>2, <1>3, <2>1, <2>3, <2>4 DEF HasStep
  <1>6. \A i \in 1..(n + 1) : steps'[i].turn \in Turns
    BY <1>1, <1>2, <1>3 DEF StepsInv
  <1>7. \A i \in 1..(n + 1) : steps'[i].kind = "tool" =>
           steps'[i].status = "completed" \/ (pc' = "tool_close" /\ i = n + 1)
    BY <1>1, <1>2, <1>3 DEF StepsInv
  <1> QED  BY <1>1, <1>3, <1>4, <1>5, <1>6, <1>7 DEF StepsInv

\* A step gets a status: the last one of a tool, or that of the turn.
LEMMA StepsSet ==
  ASSUME Typed, StepsInv, UNCHANGED <<Relay, own>>, NEW k \in Nat,
         NEW status \in {"running", "completed", "failed"}, SetStep(k, status), pc' # "tool_close",
         \/ /\ pc = "tool_close" /\ k = Len(steps) /\ status = "completed"
            /\ \A t \in Turns : Stage(t)' = Stage(t)
         \/ /\ pc # "tool_close" /\ turn \in Turns /\ k = own[turn] /\ Stage(turn) = "running"
            /\ \A t \in Turns : Stage(t)' = IF t # turn THEN Stage(t) ELSE status
  PROVE  StepsInv'
  <1>1. /\ Len(steps') = Len(steps) /\ DOMAIN steps' = DOMAIN steps
        /\ \A i \in DOMAIN steps : i # k => steps'[i] = steps[i]
        /\ \A i \in DOMAIN steps : steps'[i].turn = steps[i].turn /\ steps'[i].kind = steps[i].kind
        /\ k \in DOMAIN steps => steps'[k].status = status
    BY SetStepWrites DEF Typed
  <1>2. DOMAIN steps = 1..Len(steps) /\ Len(steps) \in Nat /\ own \in [Turns -> 0..Len(steps)]
    BY DEF Typed, RowsTyped, HeldTyped
  <1>3. \A i \in DOMAIN steps : \A t \in Turns : OfTurn(i, t)' <=> OfTurn(i, t)
    BY <1>1 DEF OfTurn
  <1>4. CASE pc = "tool_close"
    <2>1. k \in DOMAIN steps /\ steps[k].kind = "tool" /\ k = Len(steps) /\ status = "completed"
      BY <1>2, <1>4 DEF StepsInv
    <2>2. ASSUME NEW t \in Turns PROVE HasStep(t)'
      <3>1. HasStep(t) /\ Stage(t)' = Stage(t) /\ own'[t] = own[t]
        BY <1>4 DEF StepsInv
      <3>2. ~OfTurn(k, t) /\ (own[t] # 0 => own[t] \in DOMAIN steps)
        BY <1>2, <2>1 DEF OfTurn
      <3>3. \A i \in DOMAIN steps : OfTurn(i, t) => steps'[i].status = steps[i].status
        BY <1>1, <3>2
      <3> QED  BY <1>1, <1>3, <3>1, <3>2, <3>3 DEF HasStep
    <2>3. \A i \in DOMAIN steps : steps'[i].kind = "tool" => steps'[i].status = "completed"
      BY <1>1, <2>1 DEF StepsInv
    <2> QED  BY <1>1, <2>2, <2>3 DEF StepsInv
  <1>5. CASE pc # "tool_close"
    <2>1. k \in DOMAIN steps /\ OfTurn(k, turn) /\ HasStep(turn) /\ turn \in Turns /\ Stage(turn) = "running" /\ k = own[turn]
      <3>1. turn \in Turns /\ HasStep(turn) /\ Stage(turn) = "running" /\ k = own[turn]
        BY <1>5 DEF StepsInv
      <3> QED  BY <1>2, <3>1 DEF HasStep
    <2>2. ASSUME NEW t \in Turns, t # turn PROVE HasStep(t)'
      <3>1. HasStep(t) /\ Stage(t)' = Stage(t) /\ own'[t] = own[t]
        BY <1>5, <2>2 DEF StepsInv
      <3>2. ~OfTurn(k, t) /\ (own[t] # 0 => own[t] \in DOMAIN steps)
        BY <1>2, <2>1, <2>2 DEF OfTurn
      <3>3. \A i \in DOMAIN steps : OfTurn(i, t) => steps'[i].status = steps[i].status
        BY <1>1, <3>2
      <3> QED  BY <1>1, <1>3, <3>1, <3>2, <3>3 DEF HasStep
    <2>3. ASSUME NEW t \in Turns, t = turn PROVE HasStep(t)'
      <3>1. HasStep(t) /\ Stage(t)' = status /\ own'[t] = k /\ own[t] = k /\ k # 0 /\ OfTurn(k, t)
        BY <1>2, <1>5, <2>1, <2>3
      <3>2. \A i \in DOMAIN steps : OfTurn(i, t) => i = k
        BY <2>1, <3>1 DEF HasStep
      <3> QED  BY <1>1, <1>3, <2>1, <3>1, <3>2 DEF HasStep
    <2>4. \A i \in DOMAIN steps : steps'[i].kind = "tool" => steps'[i].status = "completed"
      <3>1. steps[k].kind = "turn"
        BY <2>1 DEF OfTurn
      <3> QED  BY <1>1, <1>5, <3>1 DEF StepsInv
    <2> QED  BY <1>1, <2>2, <2>3, <2>4 DEF StepsInv
  <1> QED  BY <1>4, <1>5

LEMMA StepsStep ==
  ASSUME Typed, FaultInv, Running, Running', CallsInv, StepsInv, [Next]_vars
  PROVE  StepsInv'
  <1>0. UNCHANGED <<mode, Relay, Last>>
    BY ConfigRest
  <1>1. CASE UNCHANGED vars
    <2>1. UNCHANGED <<pc, turn, own, reply, call, steps>>
      BY <1>1 DEF vars, control, rows
    <2>2. \A t \in Turns : Stage(t)' = Stage(t)
      BY <1>0, <2>1 DEF Stage, Side
    <2> QED  BY <1>0, <2>1, <2>2, StepsRest
  <1>2. CASE LoadRelayAgents \/ Enter \/ Announce
    <2>1. \A t \in Turns : Stage(t)' = Stage(t)
      BY <1>2, CallsBegin
    <2>2. UNCHANGED <<steps, own>> /\ pc # "tool_close" /\ pc' # "tool_close"
      BY <1>2 DEF LoadRelayAgents, Enter, Announce, SetAgent, Goto, Raise, rows, control
    <2> QED  BY <1>0, <2>1, <2>2, StepsRest
  <1>3. CASE OpenStep
    <2>1. /\ Stage(turn) = "none" /\ turn \in Turns
          /\ \A t \in Turns : Stage(t)' = IF t = turn THEN "running" ELSE Stage(t)
      BY <1>3, CallsOpen
    <2>2. AddStep(turn, "turn", "running") /\ own' = [own EXCEPT ![turn] = Len(steps) + 1]
          /\ pc # "tool_close" /\ pc' # "tool_close"
      BY <1>3 DEF OpenStep, Goto
    <2> QED  BY <1>0, <2>1, <2>2, StepsAdd
  <1>4. CASE ModelAnswers \/ SaveModelCall \/ SendResultMessage \/ Complete
    <2>1. \A t \in Turns : Stage(t)' = Stage(t)
      BY <1>4, CallsTalk
    <2>2. UNCHANGED <<steps, own>> /\ pc # "tool_close" /\ pc' # "tool_close"
      BY <1>4 DEF ModelAnswers, SaveModelCall, SendResultMessage, Complete, AddCall, AddMessage, SetTask, Goto, Raise,
                  rows, control
    <2> QED  BY <1>0, <2>1, <2>2, StepsRest
  <1>5. CASE OpenTool
    <2>1. \A t \in Turns : Stage(t)' = Stage(t)
      BY <1>5, CallsTalk
    <2>2. AddStep(turn, "tool", "running") /\ own' = own /\ pc = "tool" /\ pc' = "tool_close"
      BY <1>5 DEF OpenTool, Goto, control
    <2>3. turn \in Turns
      <3> PICK last \in 1..MaxTurn : last = Last
        BY LastTurn DEF Typed
      <3>1. turn \in 0..last /\ turn # 0
        BY <2>2 DEF Typed, TurnTyped, Failing
      <3> QED  BY <3>1, Counts
    <2> QED  BY <1>0, <2>1, <2>2, <2>3, StepsAdd
  <1>6. CASE CloseTool
    <2>1. \A t \in Turns : Stage(t)' = Stage(t)
      BY <1>6, CallsTalk
    <2>2. SetStep(Len(steps), "completed") /\ own' = own /\ pc = "tool_close" /\ pc' # "tool_close"
      BY <1>6 DEF CloseTool, Goto
    <2>3. Len(steps) \in Nat
      BY DEF Typed, RowsTyped
    <2> QED  BY <1>0, <2>1, <2>2, <2>3, StepsSet
  <1>7. CASE CloseStep
    <2> PICK status \in {"completed", "failed"} : status = IF reply = "error" THEN "failed" ELSE "completed"
      OBVIOUS
    <2>1. /\ Stage(turn) = "running" /\ turn \in Turns
          /\ \A t \in Turns : Stage(t)' = IF t # turn THEN Stage(t) ELSE status
      BY <1>7, CallsLeave
    <2>2. SetStep(own[turn], status) /\ own' = own /\ pc # "tool_close" /\ pc' # "tool_close"
      BY <1>7 DEF CloseStep, AfterClose, Goto, control
    <2>3. own[turn] \in Nat
      BY <2>1 DEF Typed, HeldTyped
    <2> QED  BY <1>0, <2>1, <2>2, <2>3, StepsSet
  <1>8. CASE Leave
    <2>1. (\A t \in Turns : Stage(t)' = Stage(t)) /\ turn \in Turns
      BY <1>8, CallsLeave
    <2>2. /\ steps' = steps /\ pc = "leave" /\ pc' # "tool_close"
          /\ own' = IF Relay THEN [own EXCEPT ![turn] = 0] ELSE own
      BY <1>8 DEF Leave, SetAgent, Goto, Raise
    <2>3. Stage(turn) # "running"
      BY <2>1, <2>2, Counts DEF Stage, Starting, Leaving
    <2>4. \A t \in Turns : own'[t] = own[t] \/ (Relay /\ own'[t] = 0 /\ Stage(t) # "running")
      BY <2>1, <2>2, <2>3 DEF Typed, HeldTyped
    <2> QED  BY <1>0, <2>1, <2>2, <2>4, StepsRest
  <1>9. CASE (\E w \in WorkerTurns : StartCall(w) \/ EndCall(w)) \/ Gathered \/ LoseLease
    <2>1. \A t \in Turns : Stage(t)' = Stage(t)
      BY <1>9, CallsAside
    <2>2. UNCHANGED <<steps, own>> /\ (pc' = "tool_close" <=> pc = "tool_close")
      BY <1>9 DEF StartCall, EndCall, Gathered, LoseLease, Goto, rows, control
    <2> QED  BY <1>0, <2>1, <2>2, StepsRest
  <1> QED  BY <1>1, <1>2, <1>3, <1>4, <1>5, <1>6, <1>7, <1>8, <1>9, RunningStep

-----------------------------------------------------------------------------
(* Answers and messages                                                       *)

Said(given) == [i \in DOMAIN given |-> Answer(given[i])]

\* A turn's answer is posted before the turn is left, but the final one after.
Ahead  == pc = "post" /\ IsFinal
Behind == pc = "leave" /\ ~IsFinal /\ reply = "content"

Heard(t) == \E i \in DOMAIN outputs : outputs[i] = t

\* What is handed on is what is posted, in the order of the turns, and of turns
\* that completed; a manager's task hands on all of those.
SaidInv ==
    /\ ~Ahead /\ ~Behind => messages = Said(outputs)
    /\ Behind => messages = Append(Said(outputs), Answer(turn))
    /\ Ahead => Append(messages, Answer(turn)) = Said(outputs)
    /\ \A i, j \in DOMAIN outputs : i < j => outputs[i] < outputs[j]
    /\ \A t \in Turns : Heard(t) =>
          Stage(t) = "completed" /\ (t < turn \/ (t = turn /\ (Ahead \/ (pc = "complete" /\ Relay))))
    /\ ~Relay => \A t \in Turns : t < turn /\ Stage(t) = "completed" => Heard(t)

\* Nothing is said, and the completed turns stay the same.
LEMMA SaidRest ==
  ASSUME SaidInv, UNCHANGED <<messages, outputs, Relay>>, ~Ahead, ~Behind, ~Ahead', ~Behind',
         ~(pc = "complete" /\ Relay),
         \A t \in Turns : t < turn /\ Stage(t) = "completed" <=> t < turn' /\ Stage(t)' = "completed"
  PROVE  SaidInv'
  <1>1. \A t \in Turns : Heard(t)' <=> Heard(t)
    BY DEF Heard
  <1> QED  BY <1>1 DEF SaidInv, Said

\* The answer of the turn is added to what is handed on.
LEMMA SaidMore ==
  ASSUME Typed, NEW t \in Turns, outputs' = Append(outputs, t)
  PROVE  /\ Said(outputs)' = Append(Said(outputs), Answer(t))
         /\ \A u \in Turns : Heard(u)' <=> Heard(u) \/ u = t
         /\ (\A i \in DOMAIN outputs : outputs[i] < t) /\ (\A i, j \in DOMAIN outputs : i < j => outputs[i] < outputs[j])
            => \A i, j \in DOMAIN outputs' : i < j => outputs'[i] < outputs'[j]
  <1>0. outputs \in Seq(Turns)
    BY DEF Typed, TalkTyped
  <1> PICK n \in Nat : n = Len(outputs)
    BY <1>0
  <1>1. /\ DOMAIN outputs = 1..n /\ DOMAIN outputs' = 1..(n + 1) /\ outputs'[n + 1] = t
        /\ \A i \in 1..n : outputs'[i] = outputs[i]
    BY <1>0
  <1>2. \A i \in 1..(n + 1) : i \in 1..n \/ i = n + 1
    OBVIOUS
  <1>3. Said(outputs)' = Append(Said(outputs), Answer(t))
    <2> DEFINE before == [i \in 1..n |-> Answer(outputs[i])]
    <2>1. Said(outputs) = before /\ Said(outputs)' = [i \in 1..(n + 1) |-> Answer(outputs'[i])]
      BY <1>1 DEF Said, Answer
    <2>2. before \in Seq([turn : Turns, kind : {"answer"}]) /\ Len(before) = n /\ DOMAIN before = 1..n
      <3>1. \A i \in 1..n : Answer(outputs[i]) \in [turn : Turns, kind : {"answer"}]
        BY <1>0, <1>1 DEF Answer
      <3>2. before = [i \in 1..n |-> before[i]] /\ \A i \in 1..n : before[i] = Answer(outputs[i])
        OBVIOUS
      <3> HIDE DEF before
      <3> QED  BY <3>1, <3>2, SequenceOf
    <2>3. \A i \in 1..n : before[i] = Answer(outputs[i])
      OBVIOUS
    <2> HIDE DEF before
    <2>4. /\ DOMAIN Append(before, Answer(t)) = 1..(n + 1)
          /\ \A i \in 1..n : Append(before, Answer(t))[i] = before[i]
          /\ Append(before, Answer(t))[n + 1] = Answer(t)
      BY <2>2
    <2>5. Append(before, Answer(t)) = [i \in 1..(n + 1) |-> Append(before, Answer(t))[i]]
      <3> PICK longer : longer = Append(before, Answer(t))
        OBVIOUS
      <3>1. longer \in Seq([turn : Turns, kind : {"answer"}]) /\ Len(longer) = n + 1
        <4>1. Answer(t) \in [turn : Turns, kind : {"answer"}]
          BY DEF Answer
        <4> QED  BY <2>2, <4>1
      <3>2. longer = [i \in 1..(n + 1) |-> longer[i]]
        <4> PICK R : R = [turn : Turns, kind : {"answer"}]
          OBVIOUS
        <4>1. longer \in Seq(R)
          BY <3>1
        <4>2. longer \in [1..Len(longer) -> R]
          BY <4>1, LenProperties
        <4>3. longer \in [1..(n + 1) -> R]
          BY <3>1, <4>2
        <4> QED  BY <4>3
      <3> QED  BY <3>2
    <2>6. \A i \in 1..(n + 1) : Append(before, Answer(t))[i] = Answer(outputs'[i])
      BY <1>1, <1>2, <2>3, <2>4
    <2> QED  BY <2>1, <2>5, <2>6
  <1>4. \A u \in Turns : Heard(u)' <=> Heard(u) \/ u = t
    <2>1. n + 1 \in 1..(n + 1) /\ \A i \in 1..n : i \in 1..(n + 1)
      OBVIOUS
    <2> QED  BY <1>1, <1>2, <2>1 DEF Heard
  <1>5. ASSUME \A i \in DOMAIN outputs : outputs[i] < t, \A i, j \in DOMAIN outputs : i < j => outputs[i] < outputs[j],
               NEW i \in DOMAIN outputs', NEW j \in DOMAIN outputs', i < j
        PROVE  outputs'[i] < outputs'[j]
    BY <1>1, <1>2, <1>5
  <1> QED  BY <1>3, <1>4, <1>5

LEMMA SaidStep ==
  ASSUME Typed, FaultInv, Running, Running', CallsInv, SaidInv, [Next]_vars
  PROVE  SaidInv'
  <1>0. UNCHANGED <<mode, Relay, Last>> /\ Turns = 1..MaxTurn /\ MaxTurn \in Nat /\ Subtasks \in Nat
    BY ConfigRest, Counts
  <1>n. turn \in Nat
    <2> PICK last \in 1..MaxTurn : last = Last
      BY LastTurn DEF Typed
    <2> QED  BY DEF Typed, TurnTyped
  <1>1. CASE UNCHANGED vars \/ LoseLease
    <2>1. UNCHANGED <<pc, turn, reply, call, outputs, messages>>
      BY <1>1 DEF LoseLease, vars, control, rows
    <2>2. /\ \A t \in Turns : Stage(t)' = Stage(t) /\ Heard(t)' = Heard(t)
          /\ UNCHANGED <<Ahead, Behind>>
      BY <1>0, <2>1 DEF Stage, Side, Heard, Ahead, Behind, IsFinal
    <2> QED  BY <1>0, <2>1, <2>2 DEF SaidInv, Said
  <1>2. CASE LoadRelayAgents \/ Enter \/ Announce
    <2>1. \A t \in Turns : Stage(t)' = Stage(t)
      BY <1>2, CallsBegin
    <2>2. UNCHANGED <<outputs, messages>> /\ pc \notin {"post", "leave", "complete"} /\ pc' \notin {"post", "leave"}
          /\ (turn' = turn \/ (pc = "load" /\ turn' = 1))
      BY <1>2 DEF LoadRelayAgents, Enter, Announce, SetAgent, Goto, Raise, rows, control
    <2>3. pc = "load" => turn = 0
      BY DEF CallsInv
    <2>4. \A t \in Turns : t < turn <=> t < turn'
      BY <1>0, <2>2, <2>3
    <2> QED  BY <1>0, <2>1, <2>2, <2>4, SaidRest DEF Ahead, Behind
  <1>3. CASE OpenStep
    <2>1. /\ Stage(turn) = "none" /\ turn \in Turns
          /\ \A t \in Turns : Stage(t)' = IF t = turn THEN "running" ELSE Stage(t)
      BY <1>3, CallsOpen
    <2>2. /\ UNCHANGED <<outputs, messages>> /\ pc = "open" /\ pc' \notin {"post", "leave", "complete"}
          /\ (turn' = turn \/ turn' = turn + 1 \/ (Side /\ turn' = 2))
      BY <1>3, <1>n, SideIsConcurrent DEF OpenStep, AddStep, Goto
    <2>3. ASSUME NEW t \in Turns
          PROVE  t < turn /\ Stage(t) = "completed" <=> t < turn' /\ Stage(t)' = "completed"
      <3>1. CASE t = turn
        BY <2>1, <3>1
      <3>2. CASE t # turn /\ turn' # 2
        BY <1>0, <1>n, <2>1, <2>2, <3>2
      <3>3. CASE t # turn /\ turn' = 2 /\ ~Side
        BY <1>0, <1>n, <2>1, <2>2, <3>3
      <3>4. CASE t # turn /\ turn' = 2 /\ Side
        <4>1. Stage(t) = "completed" => t = 1
          BY <1>0, <1>n, <2>2, <3>4 DEF Stage, Starting
        <4>2. turn >= 2
          BY <3>4 DEF Side
        <4> QED  BY <1>0, <1>n, <2>1, <3>4, <4>1, <4>2
      <3> QED  BY <3>1, <3>2, <3>3, <3>4
    <2> QED  BY <1>0, <2>2, <2>3, SaidRest DEF Ahead, Behind
  <1>4. CASE ModelAnswers \/ SaveModelCall \/ OpenTool \/ CloseTool
    <2>1. \A t \in Turns : Stage(t)' = Stage(t)
      BY <1>4, CallsTalk
    <2>2. UNCHANGED <<outputs, messages, turn>> /\ pc \notin {"post", "leave", "complete"} /\ pc' \notin {"post", "leave"}
      BY <1>4 DEF ModelAnswers, SaveModelCall, OpenTool, CloseTool, AddCall, AddStep, SetStep, Goto, Raise, rows, control
    <2> QED  BY <1>0, <2>1, <2>2, SaidRest DEF Ahead, Behind
  <1>5. CASE Complete
    <2>1. \A t \in Turns : Stage(t)' = Stage(t)
      BY <1>5, CallsTalk
    <2>2. UNCHANGED <<outputs, messages, turn>> /\ pc = "complete" /\ pc' = "leave" /\ ~Relay
      BY <1>5 DEF Complete, SetTask, Goto, control, Running, Stopped
    <2>3. IsFinal'
      <3>1. turn' = Subtasks + 3 /\ ~Relay'
        BY <1>0, <2>2, LastTurn DEF CallsInv, Typed
      <3> QED  BY <1>0, <3>1 DEF IsFinal
    <2> QED  BY <1>0, <2>1, <2>2, <2>3, SaidRest DEF Ahead, Behind
  <1>6. CASE CloseStep
    <2>1. /\ turn \in Turns /\ Stage(turn) = "running"
          /\ \A t \in Turns : t # turn => Stage(t)' = Stage(t)
      BY <1>6, CallsLeave
    <2>2. /\ UNCHANGED <<outputs, messages, turn, reply>> /\ pc = "close"
          /\ pc' = IF Kind(turn) = "final" THEN "complete"
                   ELSE IF reply = "pass" \/ (Concurrent /\ reply = "error") THEN "leave" ELSE "post"
      BY <1>6 DEF CloseStep, SetStep, AfterClose, Goto, control
    <2>3. ~Ahead' /\ ~Behind'
      <3>1. Kind(turn) # "final" => ~IsFinal'
        BY <1>0, <1>n, <2>2, Kinds DEF IsFinal
      <3> QED  BY <2>2, <3>1 DEF Ahead, Behind
    <2>4. ASSUME NEW t \in Turns
          PROVE  t < turn /\ Stage(t) = "completed" <=> t < turn' /\ Stage(t)' = "completed"
      BY <1>n, <1>0, <2>1, <2>2
    <2> QED  BY <1>0, <2>2, <2>3, <2>4, SaidRest DEF Ahead, Behind
  <1>7. CASE SendResultMessage
    <2>1. \A t \in Turns : Stage(t)' = Stage(t)
      BY <1>7, CallsTalk
    <2>2. /\ UNCHANGED <<outputs, turn, reply>> /\ pc = "post" /\ pc' = "leave" /\ Kind(turn) # "final"
          /\ messages' = Append(messages, Answer(turn))
      BY <1>7 DEF SendResultMessage, AddMessage, Goto, control, Running, Stopped, Answer
    <2>3. ~IsFinal /\ ~IsFinal' /\ reply = "content"
      BY <1>0, <1>n, <2>2, Kinds DEF IsFinal, CallsInv
    <2>4. ~Ahead /\ ~Behind /\ ~Ahead' /\ Behind' /\ messages = Said(outputs)
      BY <2>2, <2>3 DEF Ahead, Behind, SaidInv
    <2>5. messages' = Append(Said(outputs)', Answer(turn)')
      BY <2>2, <2>4 DEF Said, Answer
    <2>6. \A t \in Turns : Heard(t)' <=> Heard(t)
      BY <2>2 DEF Heard
    <2> QED  BY <1>0, <2>1, <2>2, <2>4, <2>5, <2>6 DEF SaidInv
  <1>8. CASE Leave
    <2>1. (\A t \in Turns : Stage(t)' = Stage(t)) /\ turn \in Turns
      BY <1>8, CallsLeave
    <2>2. /\ pc = "leave" /\ messages' = messages /\ outputs' = IF reply = "content" THEN Append(outputs, turn) ELSE outputs
          /\ \/ Kind(turn) = "final" /\ pc' = "post" /\ turn' = turn
             \/ Kind(turn) # "final" /\ turn = Last /\ pc' = "complete" /\ turn' = turn
             \/ turn # Last /\ turn' = turn + 1 /\ pc' \in {"log", "enter"}
      BY <1>8 DEF Leave, SetAgent, HandedOver, Goto, Raise, Running, Stopped, Failing
    <2>3. /\ Kind(turn) = "final" <=> IsFinal
          /\ IsFinal <=> ~Relay /\ turn = Last
      <3> PICK last \in 1..MaxTurn : last = Last /\ (~Relay => last = Subtasks + 3)
        BY LastTurn DEF Typed
      <3>1. turn \in 1..last
        BY <2>1, <1>0 DEF Typed, TurnTyped
      <3> QED  BY <1>0, <3>1, Kinds DEF IsFinal
    <2>4. /\ ~Behind' /\ (Ahead' <=> IsFinal) /\ ~Ahead /\ (Behind <=> ~IsFinal /\ reply = "content")
      BY <1>0, <2>2, <2>3 DEF Ahead, Behind, IsFinal
    <2>5. IsFinal => reply = "content" /\ turn' = turn
      <3>1. IsFinal => ~Side /\ ~Relay
        BY <1>0, <1>n DEF IsFinal, Side
      <3> QED  BY <1>n, <2>2, <2>3, <3>1 DEF CallsInv, Leaving
    <2>6. Stage(turn) = "completed" <=> reply # "error"
      BY <1>n, <2>2 DEF Stage, Starting, Leaving
    <2>7. ~Relay => reply \in {"content", "error"}
      BY <2>2 DEF CallsInv, Collecting, Leaving
    <2>8. /\ \A t \in Turns : Heard(t) => Stage(t) = "completed" /\ t < turn
          /\ \A i, j \in DOMAIN outputs : i < j => outputs[i] < outputs[j]
          /\ ~Relay => \A t \in Turns : t < turn /\ Stage(t) = "completed" => Heard(t)
      BY <2>2, <2>4 DEF SaidInv
    <2>9. \A i \in DOMAIN outputs : outputs[i] \in Turns
      BY DEF Typed, TalkTyped
    <2>10. \A i \in DOMAIN outputs : outputs[i] < turn
      BY <2>8, <2>9 DEF Heard
    <2>11. /\ (Ahead' => Append(messages, Answer(turn)) = Said(outputs)') /\ (~Ahead' => messages = Said(outputs)')
           /\ \A t \in Turns : Heard(t)' <=> Heard(t) \/ (reply = "content" /\ t = turn)
           /\ \A i, j \in DOMAIN outputs' : i < j => outputs'[i] < outputs'[j]
      <3>1. CASE reply = "content"
        <4>1. outputs' = Append(outputs, turn)
          BY <2>2, <3>1
        <4> PICK t \in Turns : t = turn
          BY <2>1
        <4>2. outputs' = Append(outputs, t)
          BY <4>1
        <4>3. /\ Said(outputs)' = Append(Said(outputs), Answer(t))
              /\ \A u \in Turns : Heard(u)' <=> Heard(u) \/ u = t
              /\ \A i, j \in DOMAIN outputs' : i < j => outputs'[i] < outputs'[j]
          BY <2>8, <2>10, <4>2, SaidMore
        <4> QED  BY <2>4, <3>1, <4>3 DEF SaidInv
      <3>2. CASE reply # "content"
        <4>1. outputs' = outputs
          BY <2>2, <3>2
        <4>2. (\A t \in Turns : Heard(t)' <=> Heard(t)) /\ Said(outputs)' = Said(outputs)
          BY <4>1 DEF Heard, Said
        <4> QED  BY <2>4, <2>5, <2>8, <3>2, <4>1, <4>2 DEF SaidInv
      <3> QED  BY <3>1, <3>2
    <2>12. Ahead' => Append(messages', Answer(turn)') = Said(outputs)'
      BY <2>2, <2>4, <2>5, <2>11 DEF Answer
    <2>13. ASSUME NEW t \in Turns, Heard(t)'
           PROVE  Stage(t)' = "completed" /\ (t < turn' \/ (t = turn' /\ (Ahead' \/ (pc' = "complete" /\ Relay'))))
      <3>1. Stage(t)' = "completed" /\ (t < turn \/ t = turn)
        BY <2>1, <2>6, <2>8, <2>11, <2>13
      <3>2. turn' = turn \/ turn' = turn + 1
        BY <2>2
      <3>3. turn' = turn => Ahead' \/ (pc' = "complete" /\ Relay')
        BY <1>0, <1>n, <2>2, <2>3, <2>4
      <3> QED  BY <1>0, <1>n, <3>1, <3>2, <3>3
    <2>14. ASSUME ~Relay, NEW t \in Turns, t < turn', Stage(t)' = "completed" PROVE Heard(t)'
      <3>1. t < turn \/ t = turn
        BY <1>0, <1>n, <2>2, <2>14
      <3>2. CASE t < turn
        BY <2>1, <2>8, <2>11, <2>14, <3>2
      <3>3. CASE t = turn
        BY <2>1, <2>6, <2>7, <2>11, <2>14, <3>3
      <3> QED  BY <3>1, <3>2, <3>3
    <2> QED  BY <1>0, <2>2, <2>4, <2>11, <2>12, <2>13, <2>14 DEF SaidInv
  <1>9. CASE (\E w \in WorkerTurns : StartCall(w) \/ EndCall(w)) \/ Gathered
    <2>1. \A t \in Turns : Stage(t)' = Stage(t)
      BY <1>9, CallsAside
    <2>2. UNCHANGED <<outputs, messages, turn>> /\ pc = "gather" /\ pc' \in {"gather", "log"}
      BY <1>9 DEF StartCall, EndCall, Gathered, Goto, rows
    <2> QED  BY <1>0, <2>1, <2>2, SaidRest DEF Ahead, Behind
  <1> QED  BY <1>1, <1>2, <1>3, <1>4, <1>5, <1>6, <1>7, <1>8, <1>9, RunningStep

RunInv == Running => CallsInv /\ StepsInv /\ SaidInv

LEMMA RunInit == Init => RunInv
  <1> SUFFICES ASSUME Init PROVE RunInv
    OBVIOUS
  <1>0. Turns = 1..MaxTurn /\ MaxTurn \in Nat /\ Subtasks \in Nat
    BY Counts
  <1>1. /\ pc \in {"load", "enter"} /\ (pc = "load" <=> turn = 0) /\ turn \in {0, 1} /\ ~Side /\ (Relay <=> turn = 0)
        /\ own = [t \in Turns |-> 0] /\ call = [w \in WorkerTurns |-> "none"] /\ reply = "none" /\ task = "running"
        /\ outputs = <<>> /\ messages = <<>> /\ steps = <<>>
    BY Counts DEF Init, Side, Relay
  <1>2. CallsInv
    BY <1>1 DEF CallsInv, Collecting, Leaving
  <1>3. \A t \in Turns : Stage(t) = "none"
    BY <1>0, <1>1 DEF Stage, Starting
  <1>4. StepsInv
    BY <1>1, <1>3 DEF StepsInv, HasStep
  <1>5. SaidInv
    <2>1. Said(outputs) = <<>>
      BY <1>1 DEF Said
    <2> QED  BY <1>0, <1>1, <1>3, <2>1 DEF SaidInv, Heard, Ahead, Behind
  <1> QED  BY <1>2, <1>4, <1>5 DEF RunInv

LEMMA RunStep ==
  ASSUME Typed, FaultInv, RunInv, [Next]_vars
  PROVE  RunInv'
  BY RunningBack, CallsStep, StepsStep, SaidStep DEF RunInv

-----------------------------------------------------------------------------
(* What a completed task has                                                  *)

\* Turn t has one step, and it is completed.
Taken(t) ==
    \E i \in DOMAIN steps :
        OfTurn(i, t) /\ steps[i].status = "completed" /\ \A j \in DOMAIN steps : OfTurn(j, t) => j = i

\* COMPLETED, without a fault.
DoneInv ==
    task = "completed" /\ faults = 0 =>
        /\ pc \in {"leave", "post", "done", "gone"}
        /\ \A t \in Turns : t <= Last => Taken(t) /\ (~Relay /\ t < Last => AnswerOf(t))

\* A stage that is completed, and an answer that is handed on, in the rows.
LEMMA StageIsTaken ==
  ASSUME StepsInv, NEW t \in Turns, Stage(t) = "completed"
  PROVE  Taken(t)
  <1>1. HasStep(t)
    BY DEF StepsInv
  <1>2. PICK i \in DOMAIN steps : OfTurn(i, t)
    BY <1>1 DEF HasStep
  <1> QED  BY <1>1, <1>2 DEF HasStep, Taken

LEMMA HeardIsAnswered ==
  ASSUME SaidInv, ~Ahead, ~Behind, NEW t \in Turns, Heard(t)
  PROVE  AnswerOf(t)
  <1>1. PICK i \in DOMAIN outputs : outputs[i] = t
    BY DEF Heard
  <1>2. messages = [k \in DOMAIN outputs |-> Answer(outputs[k])]
    BY DEF SaidInv, Said
  <1> QED  BY <1>1, <1>2 DEF AnswerOf

LEMMA DoneStep ==
  ASSUME Typed, FaultInv, RunInv, DoneInv, [Next]_vars
  PROVE  DoneInv'
  <1> SUFFICES ASSUME task' = "completed", faults' = 0
               PROVE  /\ pc' \in {"leave", "post", "done", "gone"}
                      /\ \A t \in Turns : t <= Last' => Taken(t)' /\ (~Relay' /\ t < Last' => AnswerOf(t)')
    BY DEF DoneInv
  <1>0. /\ UNCHANGED <<Relay, Last>> /\ Turns = 1..MaxTurn /\ MaxTurn \in Nat /\ faults \in Nat
        /\ turn \in Nat /\ turn <= Last /\ Last \in Nat
    <2> PICK last \in 1..MaxTurn : last = Last
      BY LastTurn DEF Typed
    <2>1. turn \in 0..last
      BY DEF Typed, TurnTyped
    <2> QED  BY <2>1, ConfigRest, Counts DEF Typed, EndTyped
  <1>1. ~WriteFails /\ ~MarkFailedFails
    BY <1>0 DEF WriteFails, MarkFailedFails
  <1>2. CASE task = "completed"
    <2>0. faults = 0
      <3>1. ~WriteFails /\ ~MarkFailedFails => faults' = faults
        BY DEF Next, Executor, vars, LoadRelayAgents, Enter, Announce, OpenStep, ModelAnswers, SaveModelCall,
               OpenTool, CloseTool, CloseStep, SendResultMessage, Leave, Complete, StartCall, EndCall, Gathered,
               FailStep, FailTask, FailAgent, FailPost, MarkFailedRefused, LeaveIfLost, LoseLease, Goto, Raise
      <3> QED  BY <1>1, <3>1
    <2>1. pc \in {"leave", "post", "done", "gone"} /\ \A t \in Turns : t <= Last => Taken(t) /\ (~Relay /\ t < Last => AnswerOf(t))
      BY <1>2, <2>0 DEF DoneInv
    <2>2. Running => pc \in {"leave", "post"} /\ ~Relay /\ turn = Last
      BY <1>2, <2>1 DEF RunInv, CallsInv, Running, Stopped, Failing
    <2>3. turn = Last /\ ~Relay => Kind(turn) = "final"
      BY <1>0, LastTurn, Kinds, Counts DEF Typed
    <2>4. \/ SendResultMessage \/ Leave \/ (\E label \in Guarded : LeaveIfLost(label)) \/ LoseLease \/ UNCHANGED vars
      BY <1>1, <2>1 DEF Next, Executor, LoadRelayAgents, Enter, Announce, OpenStep, ModelAnswers, SaveModelCall,
               OpenTool, CloseTool, CloseStep, Complete, StartCall, EndCall, Gathered,
               FailStep, FailTask, FailAgent, FailPost, MarkFailedRefused
    <2>5. /\ steps' = steps /\ pc' \in {"leave", "post", "done", "gone"}
          /\ messages' = messages \/ messages' = Append(messages, Answer(turn))
      <3>1. CASE SendResultMessage
        BY <3>1 DEF SendResultMessage, AddMessage, Answer, Goto
      <3>2. CASE Leave
        <4>1. Kind(turn) = "final"
          BY <2>2, <2>3, <3>2 DEF Leave, Running, Stopped, Failing
        <4> QED  BY <3>2, <4>1 DEF Leave, SetAgent, Goto
      <3>3. CASE (\E label \in Guarded : LeaveIfLost(label)) \/ LoseLease \/ UNCHANGED vars
        BY <2>1, <3>3 DEF LeaveIfLost, LoseLease, vars, rows
      <3> QED  BY <2>4, <3>1, <3>2, <3>3
    <2>6. ASSUME NEW t \in Turns, t <= Last
          PROVE  Taken(t)' /\ (~Relay /\ t < Last => AnswerOf(t)')
      <3>1. Taken(t)'
        BY <2>1, <2>5, <2>6 DEF Taken, OfTurn
      <3>2. AnswerOf(t) => AnswerOf(t)'
        <4>1. \A i \in DOMAIN messages : i \in DOMAIN messages' /\ messages'[i] = messages[i]
          <5>1. messages \in Seq([turn : 0..MaxTurn, kind : {"answer", "error"}])
            BY DEF Typed, RowsTyped
          <5>2. ASSUME NEW row, messages' = Append(messages, row)
                PROVE  \A i \in DOMAIN messages : i \in DOMAIN messages' /\ messages'[i] = messages[i]
            BY <5>1, <5>2
          <5> QED  BY <2>5, <5>2
        <4> QED  BY <4>1 DEF AnswerOf, Answer
      <3> QED  BY <2>1, <2>6, <3>1, <3>2
    <2> QED  BY <1>0, <2>5, <2>6
  <1>3. CASE task # "completed"
    <2>1. Complete
      BY <1>1, <1>3 DEF Next, Executor, vars, rows, LoadRelayAgents, Enter, Announce, OpenStep, ModelAnswers, SaveModelCall,
               OpenTool, CloseTool, CloseStep, SendResultMessage, Leave, StartCall, EndCall, Gathered,
               FailStep, FailTask, FailAgent, FailPost, MarkFailedRefused, LeaveIfLost, LoseLease,
               SetAgent, AddStep, SetStep, AddCall, AddMessage, SetTask
    <2>2. /\ pc = "complete" /\ pc' \in {"done", "leave"} /\ UNCHANGED <<steps, messages>>
      BY <2>1 DEF Complete, SetTask, Goto
    <2>3. Running /\ CallsInv /\ StepsInv /\ SaidInv
      BY <2>2 DEF RunInv, Running, Stopped, Failing
    <2>4. turn = Last /\ ~Side /\ reply # "error" /\ ~Ahead /\ ~Behind
      BY <2>2, <2>3 DEF CallsInv, Leaving, Ahead, Behind
    <2>5. ASSUME NEW t \in Turns, t <= Last
          PROVE  Taken(t) /\ (~Relay /\ t < Last => AnswerOf(t))
      <3>1. Stage(t) = "completed"
        BY <1>0, <2>2, <2>4, <2>5 DEF Stage, Starting, Leaving
      <3>2. ~Relay /\ t < Last => Heard(t)
        BY <2>3, <2>4, <3>1 DEF SaidInv
      <3> QED  BY <2>3, <2>4, <3>1, <3>2, StageIsTaken, HeardIsAnswered
    <2>6. ASSUME NEW t \in Turns, t <= Last
          PROVE  Taken(t)' /\ (~Relay /\ t < Last => AnswerOf(t)')
      BY <2>2, <2>5, <2>6 DEF Taken, OfTurn, AnswerOf
    <2> QED  BY <1>0, <2>2, <2>6
  <1> QED  BY <1>2, <1>3

THEOREM RunInvariant == Spec => [](Typed /\ FaultInv /\ RunInv /\ DoneInv)
  <1>1. Init => FaultInv /\ DoneInv
    BY DEF Init, FaultInv, Running, Stopped, Failing, DoneInv
  <1>2. Typed /\ FaultInv /\ RunInv /\ DoneInv /\ [Next]_vars => (Typed /\ FaultInv /\ RunInv /\ DoneInv)'
    BY TypedStep, FaultStep, RunStep, DoneStep
  <1> QED  BY <1>1, <1>2, TypedInit, RunInit, PTL DEF Spec

\* What a turn is given is what the conversation shows, each answer of a completed
\* step, and a task is COMPLETED when every turn was taken (_run_relay_task,
\* _run_multi_agent_task), for any number of turns.
THEOREM AnswersReachNext == Spec => []AnswersAreHandedOver
  <1> SUFFICES ASSUME Typed, FaultInv, RunInv, DoneInv PROVE AnswersAreHandedOver
    BY RunInvariant, PTL
  <1>0. /\ Turns = 1..MaxTurn /\ MaxTurn \in Nat
        /\ turn \in Nat /\ turn <= Last /\ Last \in Nat /\ Last <= MaxTurn
    <2> PICK last \in 1..MaxTurn : last = Last
      BY LastTurn DEF Typed
    <2>1. turn \in 0..last
      BY DEF Typed, TurnTyped
    <2> QED  BY <2>1, Counts
  <1>1. ASSUME NEW t \in Turns, Taken(t)
        PROVE  Cardinality(Steps(t, "completed")) = 1 /\ Steps(t, "failed") \cup Steps(t, "running") = {}
    <2>1. PICK i \in DOMAIN steps :
             OfTurn(i, t) /\ steps[i].status = "completed" /\ \A j \in DOMAIN steps : OfTurn(j, t) => j = i
      BY <1>1 DEF Taken
    <2>2. Steps(t, "completed") = {i}
      BY <2>1 DEF Steps, OfTurn
    <2>3. Steps(t, "failed") = {} /\ Steps(t, "running") = {}
      BY <2>1 DEF Steps, OfTurn
    <2> QED  BY <2>2, <2>3, FS_Singleton
  <1>2. HandOver
    <2> SUFFICES ASSUME pc \in {"call", "gather"}
                 PROVE  /\ messages = Said(outputs)
                        /\ \A i, j \in DOMAIN outputs : i < j => outputs[i] < outputs[j]
                        /\ \A t \in 1..(turn - 1) : Cardinality(Steps(t, "completed")) = 1 /\ (~Relay => AnswerOf(t))
      BY DEF HandOver, Said
    <2>1. CallsInv /\ StepsInv /\ SaidInv /\ ~Ahead /\ ~Behind
      BY DEF RunInv, Running, Stopped, Failing, Ahead, Behind
    <2>2. ASSUME NEW t \in 1..(turn - 1)
          PROVE  Cardinality(Steps(t, "completed")) = 1 /\ (~Relay => AnswerOf(t))
      <3>1. t \in Turns /\ t < turn
        BY <1>0
      <3>2. pc = "call" => ~Side
        BY <2>1 DEF CallsInv
      <3>3. pc = "gather" => t = 1
        BY <1>0, <2>1, <3>1 DEF CallsInv
      <3>4. Stage(t) = "completed"
        BY <3>1, <3>2, <3>3 DEF Stage
      <3>5. ~Relay => Heard(t)
        BY <2>1, <3>1, <3>4 DEF SaidInv
      <3> QED  BY <1>1, <2>1, <3>1, <3>4, <3>5, StageIsTaken, HeardIsAnswered
    <2> QED  BY <2>1, <2>2 DEF SaidInv
  <1>3. CompletedMeansAnswered
    <2> SUFFICES ASSUME task = "completed", faults = 0, NEW t \in 1..Last
                 PROVE  /\ Cardinality(Steps(t, "completed")) = 1
                        /\ Steps(t, "failed") \cup Steps(t, "running") = {}
                        /\ ~Relay /\ t < Last => AnswerOf(t)
      BY DEF CompletedMeansAnswered
    <2>1. t \in Turns /\ t <= Last
      BY <1>0
    <2>2. Taken(t) /\ (~Relay /\ t < Last => AnswerOf(t))
      BY <2>1 DEF DoneInv
    <2> QED  BY <1>1, <2>1, <2>2
  <1> QED  BY <1>2, <1>3 DEF AnswersAreHandedOver
-----------------------------------------------------------------------------
(* Where a failure is recorded                                                *)

NoHop == [turn |-> 0, step |-> 0]

\* The first failed sub-task, in the plan's order.
First(w) == call[w] = "failed" /\ \A v \in WorkerTurns : call[v] = "failed" => w <= v

\* What the handlers of a failure will hold: one by one, the sub-task of the turn
\* and its step; side by side, the first that failed of those that were persisted.
HopInv ==
    /\ turn <= 1 \/ Relay => hop = NoHop
    /\ mode = "sequential" /\ turn \in WorkerTurns =>
          /\ pc # "enter" => hop.turn = turn
          /\ pc \in {"announce", "open"} => hop.step = 0
          /\ pc \notin Starting => hop.step = own[turn]
    /\ Collecting /\ (\E w \in WorkerTurns : w < turn /\ call[w] = "failed") =>
          hop.turn \in WorkerTurns /\ First(hop.turn) /\ hop.step = own[hop.turn]

\* One by one, only the agent of the turn is "running".
AgentsInv ==
    mode # "parallel" =>
        \A a \in Agents : agents[a] = "running" =>
            turn \in Turns /\ a = agentOf[turn] /\ pc \notin {"load", "enter"}

\* The turn that failed is the one that is blamed, and all else is over.
AttributionInv ==
    /\ faults = 0 /\ lease = "held" /\ absent = {} /\ mode # "parallel" /\ (Relay \/ turn <= Subtasks + 1)
    /\ pc \in Failing \/ (pc = "done" /\ task = "failed")
    =>
    /\ turn \in Turns /\ HeldTurn = turn /\ HeldStep = own[turn]
    /\ own[turn] \in DOMAIN steps /\ OfTurn(own[turn], turn)
    /\ pc # "fail_step" => steps[own[turn]].status = "failed"
    /\ \A i \in DOMAIN steps : i # own[turn] => steps[i].status = "completed"
    /\ \A a \in Agents : agents[a] = "running" => a = agentOf[turn] /\ pc \in {"fail_step", "fail_task", "fail_agent"}

\* Each call's outcome is in the rows of its sub-task.
Kept(w) ==
    /\ call[w] = "answered" => Steps(w, "completed") # {} /\ AnswerOf(w)
    /\ call[w] = "failed" => Steps(w, "failed") # {} /\ ~AnswerOf(w)

\* The siblings of the first failed sub-task have what they came to.
SiblingsInv ==
    faults = 0 /\ lease = "held" /\ pc \in Failing \cup {"done"} /\ AnyFailed =>
        /\ hop.turn \in WorkerTurns /\ First(hop.turn)
        /\ hop.step \in DOMAIN steps /\ steps[hop.step].status = "failed"
        /\ \A w \in WorkerTurns : Kept(w)
        /\ pc = "done" => Len(messages) > 0 /\ messages[Len(messages)].turn = hop.turn

\* Where the executor is.
LEMMA TurnIs ==
  ASSUME Typed
  PROVE  /\ turn \in Nat /\ turn <= Last /\ Last \in Nat /\ (turn # 0 => turn \in Turns)
         /\ Turns \subseteq Nat \ {0} /\ Subtasks \in Nat /\ Subtasks >= 1 /\ Agents = Turns
         /\ WorkerTurns = 2..(Subtasks + 1) /\ WorkerTurns \subseteq Turns /\ LastWorker = Subtasks + 1
         /\ mode \in {"relay", "sequential", "parallel"} /\ (~Relay => Last = Subtasks + 3)
         /\ Concurrent <=> Side
         /\ Kind(turn) = "worker" <=> ~Relay /\ turn \in 2..(Subtasks + 1)
         /\ Kind(turn) = "final" <=> ~Relay /\ (turn = Last \/ turn = 0)
  <1> PICK last \in 1..MaxTurn : last = Last /\ (~Relay => last = Subtasks + 3)
    BY LastTurn DEF Typed
  <1>1. turn \in 0..last /\ mode \in {"relay", "sequential", "parallel"}
    BY CountsAssumption DEF Typed, TurnTyped
  <1>2. turn \in Nat /\ turn <= Last /\ Last \in Nat /\ (turn # 0 => turn \in Turns) /\ Turns \subseteq Nat \ {0}
    BY <1>1, Counts
  <1>3. Subtasks \in Nat /\ Subtasks >= 1 /\ Agents = Turns /\ LastWorker = Subtasks + 1
        /\ WorkerTurns = 2..(Subtasks + 1) /\ WorkerTurns \subseteq Turns
    BY Counts
  <1>4. /\ Concurrent <=> Side
        /\ Kind(turn) = "worker" <=> ~Relay /\ turn \in 2..(Subtasks + 1)
        /\ Kind(turn) = "final" <=> ~Relay /\ (turn = Last \/ turn = 0)
    BY <1>1, <1>2, <1>3, Kinds, SideIsConcurrent
  <1> QED  BY <1>1, <1>2, <1>3, <1>4

\* A turn goes on: nothing that the handlers hold changes.
LEMMA HopRest ==
  ASSUME HopInv, UNCHANGED <<mode, turn, own, hop, call>>, pc' \in Starting => pc \in Starting,
         pc' = "enter" \/ pc # "enter", pc' \in {"announce", "open"} => pc \in {"announce", "open"},
         pc \in Starting => pc' \in Starting, Collecting' => Collecting
  PROVE  HopInv'
  BY DEF HopInv, Collecting, First, Relay, NoHop

LEMMA HopStep ==
  ASSUME Typed, FaultInv, Running, Running', CallsInv, HopInv, [Next]_vars
  PROVE  HopInv'
  <1>0. UNCHANGED <<mode, Relay, Last>>
    BY ConfigRest
  <1>1. CASE UNCHANGED vars \/ LoseLease
    <2>1. UNCHANGED <<mode, pc, turn, own, hop, call>>
      BY <1>0, <1>1 DEF LoseLease, vars, control
    <2> QED  BY <2>1, HopRest DEF Collecting, Side
  <1>2. CASE LoadRelayAgents
    <2>1. pc = "load" /\ pc' = "enter" /\ hop' = hop /\ turn = 0 /\ Relay
      BY <1>2 DEF LoadRelayAgents, Goto, Raise, Running, Stopped, Failing, CallsInv, Typed, TurnTyped
    <2> QED  BY <1>0, <2>1 DEF HopInv, Collecting, Relay, NoHop, Starting
  <1>3. CASE Enter
    <2>1. /\ pc' = "announce" /\ UNCHANGED <<turn, own, call>>
          /\ hop' = IF Kind(turn) # "worker" THEN hop
                    ELSE [turn |-> turn, step |-> IF Concurrent THEN hop.step ELSE 0]
      BY <1>3 DEF Enter, Goto, Raise, Running, Stopped, Failing
    <2>2. (turn <= 1 \/ Relay)' => hop' = NoHop
      BY <1>0, <2>1, TurnIs DEF HopInv, NoHop
    <2>3. mode = "sequential" /\ turn \in WorkerTurns => hop'.turn = turn /\ hop'.step = 0
      BY <2>1, TurnIs DEF Side, Relay
    <2> QED  BY <1>0, <2>1, <2>2, <2>3 DEF HopInv, Collecting, Starting, NoHop
  <1>4. CASE Announce
    <2>1. pc = "announce" /\ pc' = "open" /\ UNCHANGED <<turn, own, hop, call>>
      BY <1>4 DEF Announce, Goto, control
    <2> QED  BY <1>0, <2>1, HopRest DEF Collecting, Starting
  <1>5. CASE OpenStep
    <2> PICK n \in Nat : n = Len(steps)
      BY DEF Typed, RowsTyped
    <2>1. /\ pc = "open" /\ own' = [own EXCEPT ![turn] = n + 1]
          /\ hop' = IF Kind(turn) = "worker" THEN [hop EXCEPT !.step = n + 1] ELSE hop
          /\ \/ ~Side /\ pc' = "call" /\ turn' = turn
             \/ Side /\ pc' \in {"enter", "gather"} /\ turn' \in {2, turn + 1}
      BY <1>5, TurnIs DEF OpenStep, Goto
    <2>2. (turn <= 1 \/ Relay)' => hop' = NoHop
      <3>1. Side => turn >= 2 /\ ~Relay
        BY DEF Side, Relay
      <3> QED  BY <1>0, <2>1, <3>1, TurnIs DEF HopInv
    <2>3. mode = "sequential" /\ turn \in WorkerTurns => hop'.turn = turn /\ hop'.step = own'[turn]
      <3>1. own \in [Turns -> 0..n] /\ hop \in [turn : {0} \cup WorkerTurns, step : 0..n]
        BY DEF Typed, HeldTyped
      <3>2. mode = "sequential" => ~Relay
        BY DEF Relay
      <3> QED  BY <2>1, <3>1, <3>2, TurnIs DEF HopInv
    <2>4. mode = "sequential" => ~Side
      BY DEF Side
    <2> QED  BY <1>0, <2>1, <2>2, <2>3, <2>4 DEF HopInv, Collecting, Starting, NoHop
  <1>6. CASE ModelAnswers \/ SaveModelCall \/ OpenTool \/ CloseTool \/ CloseStep \/ SendResultMessage \/ Complete
    <2>1. UNCHANGED <<turn, own, hop, call>>
      BY <1>6 DEF ModelAnswers, SaveModelCall, OpenTool, CloseTool, CloseStep, SendResultMessage, Complete, control
    <2>2. /\ pc \in {"call", "log", "tool", "tool_close", "close", "post", "complete"}
          /\ pc' \in {"log", "close", "tool", "tool_close", "call", "complete", "leave", "post"}
      BY <1>6 DEF ModelAnswers, SaveModelCall, OpenTool, CloseTool, CloseStep, SendResultMessage, Complete,
                  AfterClose, Goto, Raise, Running, Stopped, Failing
    <2>3. Side' <=> Side
      BY <1>0, <2>1 DEF Side
    <2>4. Collecting' => Collecting
      BY <2>2, <2>3 DEF Collecting, CallsInv
    <2> QED  BY <1>0, <2>1, <2>2, <2>4, HopRest DEF Starting
  <1>7. CASE Leave
    <2>1. /\ pc = "leave" /\ call' = call /\ (~Relay => own' = own)
          /\ hop' = IF FirstError THEN [turn |-> turn, step |-> own[turn]] ELSE hop
          /\ \/ pc' \in {"post", "complete"} /\ ~Relay /\ turn = Last /\ turn' = turn
             \/ pc' = "complete" /\ Relay /\ turn' = turn
             \/ pc' = "log" /\ Side /\ turn' = turn + 1
             \/ pc' = "enter" /\ turn' = turn + 1
      <3>1. turn # 0
        BY <1>7 DEF Leave, CallsInv, Typed, TurnTyped, Failing
      <3> QED  BY <1>7, <3>1, TurnIs DEF Leave, Goto, Raise, Running, Stopped, Failing
    <2>2. /\ Side => mode = "parallel" /\ ~Relay /\ turn >= 2 /\ turn \in WorkerTurns
          /\ turn # 0 /\ FirstError => Side
      BY TurnIs DEF Side, Relay, FirstError
    <2>3. turn \in Nat /\ turn # 0
      BY <2>1, TurnIs DEF CallsInv, Typed, TurnTyped, Failing
    <2>4. (turn <= 1 \/ Relay)' => hop' = NoHop
      BY <1>0, <2>1, <2>2, <2>3 DEF HopInv
    <2>5. mode = "sequential" /\ turn' \in WorkerTurns => pc' = "enter"
      <3>1. mode = "sequential" => ~Relay
        BY DEF Relay
      <3> QED  BY <1>0, <2>1, <2>2, <3>1, TurnIs
    <2>6. ASSUME Collecting', NEW u \in WorkerTurns, u < turn', call'[u] = "failed"
          PROVE  hop'.turn \in WorkerTurns /\ First(hop.turn)' /\ hop'.step = own'[hop'.turn]
      <3>1. pc' = "log" /\ Side /\ turn' = turn + 1 /\ Collecting
        <4>1. Side' => ~Relay /\ turn' # Last
          BY <1>0, TurnIs DEF Side, Relay
        <4> QED  BY <2>1, <2>6, <4>1 DEF Collecting, Leaving
      <3>2. reply = IF call[turn] = "failed" THEN "error" ELSE "content"
        BY <3>1 DEF CallsInv
      <3>3. CASE \E w \in WorkerTurns : w < turn /\ call[w] = "failed"
        <4>1. hop' = hop
          BY <2>1, <3>3 DEF FirstError
        <4>2. hop.turn \in WorkerTurns /\ First(hop.turn) /\ hop.step = own[hop.turn]
          BY <3>1, <3>3 DEF HopInv
        <4> QED  BY <2>1, <2>2, <3>1, <4>1, <4>2 DEF First
      <3>4. CASE ~ \E w \in WorkerTurns : w < turn /\ call[w] = "failed"
        <4>1. u = turn /\ reply = "error"
          BY <2>1, <2>3, <2>6, <3>1, <3>2, <3>4, TurnIs
        <4>2. hop' = [turn |-> turn, step |-> own[turn]]
          BY <2>1, <3>1, <3>4, <4>1, TurnIs DEF FirstError
        <4>3. \A v \in WorkerTurns : call[v] = "failed" => turn <= v
          BY <2>3, <3>4, TurnIs
        <4> QED  BY <2>1, <2>2, <2>6, <3>1, <4>1, <4>2, <4>3 DEF First
      <3> QED  BY <3>3, <3>4
    <2> QED  BY <1>0, <2>4, <2>5, <2>6 DEF HopInv, Starting, NoHop
  <1>8. CASE (\E w \in WorkerTurns : StartCall(w) \/ EndCall(w)) \/ Gathered
    <2>1. UNCHANGED <<turn, own, hop>> /\ pc = "gather" /\ pc' \in {"gather", "log"} /\ turn = 2 /\ mode = "parallel"
      BY <1>8 DEF StartCall, EndCall, Gathered, Goto, CallsInv, Side
    <2>2. (turn <= 1 \/ Relay)' => hop' = NoHop
      BY <1>0, <2>1 DEF Relay
    <2>3. ~ \E w \in WorkerTurns : w < turn'
      BY <2>1, TurnIs
    <2> QED  BY <1>0, <2>1, <2>2, <2>3 DEF HopInv, NoHop
  <1> QED  BY <1>1, <1>2, <1>3, <1>4, <1>5, <1>6, <1>7, <1>8, RunningStep

LEMMA AgentsStep ==
  ASSUME Typed, FaultInv, Running, Running', CallsInv, AgentsInv, [Next]_vars
  PROVE  AgentsInv'
  <1> SUFFICES ASSUME mode # "parallel", NEW a \in Agents, agents'[a] = "running"
               PROVE  turn' \in Turns /\ a = agentOf'[turn'] /\ pc' \notin {"load", "enter"}
    BY ConfigRest DEF AgentsInv
  <1>0. UNCHANGED <<mode, agentOf>> /\ ~Side /\ ~Concurrent
    BY ConfigRest, TurnIs DEF Side
  <1>1. CASE UNCHANGED vars \/ LoseLease
    <2>1. UNCHANGED <<pc, turn, agents>>
      BY <1>1 DEF LoseLease, vars, control, rows
    <2> QED  BY <1>0, <2>1 DEF AgentsInv
  <1>2. CASE LoadRelayAgents \/ Enter
    <2>1. agents' = agents /\ pc \in {"load", "enter"}
      BY <1>2 DEF LoadRelayAgents, Enter, rows
    <2> QED  BY <2>1 DEF AgentsInv
  <1>3. CASE Announce
    <2>1. turn \in Turns /\ pc' = "open" /\ turn' = turn
      BY <1>3, TurnIs DEF Announce, Goto, control, CallsInv
    <2>2. \A b \in Agents : b # agentOf[turn] => agents'[b] = agents[b]
      BY <1>3, <2>1, SetAgentWrites DEF Announce, Typed
    <2> QED  BY <1>0, <2>1, <2>2 DEF AgentsInv
  <1>4. CASE \/ OpenStep \/ ModelAnswers \/ SaveModelCall \/ OpenTool \/ CloseTool \/ CloseStep
             \/ SendResultMessage \/ Complete
    <2>1. UNCHANGED <<turn, agents>> /\ pc' \notin {"load", "enter"}
      BY <1>0, <1>4 DEF OpenStep, ModelAnswers, SaveModelCall, OpenTool, CloseTool, CloseStep, SendResultMessage, Complete,
                  AddStep, SetStep, AddCall, AddMessage, SetTask, AfterClose, Goto, Raise, rows, control
    <2> QED  BY <1>0, <2>1 DEF AgentsInv
  <1>5. CASE Leave
    <2>1. turn \in Turns /\ SetAgent(turn, IF reply = "error" THEN "failed" ELSE "idle")
      BY <1>5, TurnIs DEF Leave, CallsInv
    <2>2. \A b \in Agents : IF b = agentOf[turn] THEN agents'[b] \in {"failed", "idle"} ELSE agents'[b] = agents[b]
      BY <2>1, SetAgentWrites DEF Typed
    <2> QED  BY <2>2 DEF AgentsInv
  <1>6. CASE (\E w \in WorkerTurns : StartCall(w) \/ EndCall(w)) \/ Gathered
    BY <1>0, <1>6 DEF StartCall, EndCall, Gathered, CallsInv
  <1> QED  BY <1>1, <1>2, <1>3, <1>4, <1>5, <1>6, RunningStep
\* How a run stops that keeps its lease and meets no fault.
LEMMA Stops ==
  ASSUME Typed, FaultInv, Running, [Next]_vars, pc' \in Failing \cup {"done"}, faults' = 0, lease' = "held"
  PROVE  /\ UNCHANGED call
         /\ \/ LoadRelayAgents /\ pc = "load" /\ absent # {}
            \/ Enter /\ pc = "enter" /\ absent # {}
            \/ SaveModelCall /\ pc = "log" /\ ~Side /\ pc' = "fail_step"
            \/ Leave /\ pc = "leave" /\ Side /\ turn = Subtasks + 1 /\ AnyFailed /\ pc' = "fail_step"
            \/ SendResultMessage /\ pc = "post" /\ ~Side /\ pc' = "done" /\ task' = "completed"
            \/ Complete /\ pc = "complete" /\ pc' = "done" /\ task' = "completed"
  <1> USE DEF Running, Stopped, Failing, Goto, Raise
  <1>0. /\ Concurrent <=> Side
        /\ Kind(turn) = "final" <=> ~Relay /\ (turn = Last \/ turn = 0)
        /\ turn = 0 => Relay
        /\ LastWorker = Subtasks + 1 /\ turn \in Nat /\ faults \in Nat /\ Subtasks \in Nat
        /\ Side => turn <= Subtasks + 1 /\ turn \in 2..(Subtasks + 1)
    BY TurnIs DEF Typed, TurnTyped, EndTyped, Side
  <1>1. CASE LoadRelayAgents
    BY <1>1 DEF LoadRelayAgents, Missing
  <1>2. CASE Enter
    BY <1>2 DEF Enter, Missing
  <1>3. CASE SaveModelCall
    BY <1>0, <1>3 DEF SaveModelCall, control
  <1>4. CASE Leave
    <2>1. pc = "leave" /\ pc' = "fail_step" /\ call' = call /\ Concurrent /\ AnyFailed /\ ~(turn < LastWorker)
      BY <1>4 DEF Leave
    <2> QED  BY <1>0, <1>4, <2>1
  <1>5. CASE SendResultMessage
    <2>1. pc = "post" /\ pc' = "done" /\ Kind(turn) = "final" /\ task' = task /\ call' = call
      BY <1>5 DEF SendResultMessage, AddMessage, control
    <2>2. IsFinal /\ ~Side
      BY <1>0, <2>1, TurnIs DEF IsFinal, Side, Typed, TurnTyped
    <2> QED  BY <1>5, <2>1, <2>2 DEF FaultInv
  <1>6. CASE Complete
    BY <1>6 DEF Complete, SetTask, control
  <1>7. CASE UNCHANGED vars \/ Announce \/ OpenStep \/ ModelAnswers \/ OpenTool \/ CloseTool \/ CloseStep
             \/ (\E w \in WorkerTurns : StartCall(w) \/ EndCall(w)) \/ Gathered \/ LoseLease
    BY <1>7 DEF vars, Announce, OpenStep, ModelAnswers, OpenTool, CloseTool, CloseStep, AfterClose, StartCall, EndCall,
                Gathered, LoseLease
  <1>8. CASE FailStep \/ FailTask \/ FailAgent \/ FailPost \/ MarkFailedRefused \/ MarkFailedFails
             \/ \E label \in Guarded : LeaveIfLost(label)
    BY <1>8 DEF FailStep, FailTask, FailAgent, FailPost, MarkFailedRefused, MarkFailedFails, LeaveIfLost
  <1>9. CASE WriteFails
    BY <1>0, <1>9 DEF WriteFails
  <1> QED  BY <1>1, <1>2, <1>3, <1>4, <1>5, <1>6, <1>7, <1>8, <1>9 DEF Next, Executor

\* And how it goes on.
LEMMA StopMoves ==
  ASSUME Typed, ~Running, [Next]_vars, faults' = 0, lease' = "held"
  PROVE  /\ faults = 0 /\ lease = "held" /\ UNCHANGED <<turn, own, hop, call>>
         /\ (UNCHANGED pc /\ UNCHANGED rows) \/ FailStep \/ FailTask \/ FailAgent \/ FailPost
  <1> USE DEF Running, Stopped, Failing, Goto
  <1>0. faults \in Nat
    BY Counts DEF Typed, EndTyped
  <1>1. CASE UNCHANGED vars
    BY <1>1 DEF vars, control
  <1>2. CASE FailStep \/ FailTask \/ FailAgent \/ FailPost
    BY <1>2 DEF FailStep, FailTask, FailAgent, FailPost, control
  <1>3. CASE MarkFailedRefused \/ LoseLease \/ MarkFailedFails \/ \E label \in Guarded : LeaveIfLost(label)
    BY <1>0, <1>3 DEF MarkFailedRefused, LoseLease, MarkFailedFails, LeaveIfLost, RaiseIfLeaseLost, Guarded
  <1>4. ~WriteFails
    BY <1>0 DEF WriteFails
  <1>5. CASE \/ LoadRelayAgents \/ Enter \/ Announce \/ OpenStep \/ ModelAnswers \/ SaveModelCall \/ OpenTool
             \/ CloseTool \/ CloseStep \/ SendResultMessage \/ Leave \/ Complete
             \/ (\E w \in WorkerTurns : StartCall(w) \/ EndCall(w)) \/ Gathered
    BY <1>5 DEF LoadRelayAgents, Enter, Announce, OpenStep, ModelAnswers, SaveModelCall, OpenTool, CloseTool, CloseStep,
                SendResultMessage, Leave, Complete, StartCall, EndCall, Gathered
  <1> QED  BY <1>1, <1>2, <1>3, <1>4, <1>5 DEF Next, Executor

\* The model's call or a tool round has failed: the turn's step is the only one
\* that is "running", and it is the one the handlers hold.
LEMMA AttributionBegins ==
  ASSUME Typed, CallsInv, StepsInv, HopInv, AgentsInv, mode # "parallel", Relay \/ turn <= Subtasks + 1, pc = "log"
  PROVE  /\ turn \in Turns /\ HeldTurn = turn /\ HeldStep = own[turn]
         /\ own[turn] \in DOMAIN steps /\ OfTurn(own[turn], turn)
         /\ \A i \in DOMAIN steps : i # own[turn] => steps[i].status = "completed"
         /\ \A a \in Agents : agents[a] = "running" => a = agentOf[turn]
  <1> PICK n \in Nat : n = Len(steps)
    BY DEF Typed, RowsTyped
  <1>0. turn \in Turns /\ turn # 0 /\ turn \in Nat /\ Turns \subseteq Nat /\ ~Side
    BY TurnIs DEF CallsInv, Side
  <1>1. DOMAIN steps = 1..n /\ own[turn] \in 0..n /\ \A i \in 1..n : steps[i] \in StepRow
    BY <1>0 DEF Typed, RowsTyped, HeldTyped
  <1>2. Stage(turn) = "running" /\ HasStep(turn)
    BY <1>0 DEF Stage, Starting, Leaving, StepsInv
  <1>3. own[turn] # 0 /\ OfTurn(own[turn], turn) /\ own[turn] \in DOMAIN steps
    BY <1>1, <1>2 DEF HasStep
  <1>4. HeldTurn = turn /\ HeldStep = own[turn]
    <2>1. CASE Relay \/ turn = 1
      <3>1. hop = NoHop /\ Kind(turn) # "worker"
        BY <1>0, <2>1, TurnIs DEF HopInv
      <3> QED  BY <1>0, <3>1 DEF HeldTurn, HeldStep, NoHop
    <2>2. CASE ~Relay /\ turn # 1
      <3>1. turn \in WorkerTurns /\ mode = "sequential"
        BY <1>0, <2>2, TurnIs DEF Relay
      <3>2. hop.turn = turn /\ hop.step = own[turn]
        BY <3>1 DEF HopInv, Starting
      <3> QED  BY <1>0, <1>3, <3>2 DEF HeldTurn, HeldStep
    <2> QED  BY <2>1, <2>2
  <1>5. ASSUME NEW i \in DOMAIN steps, i # own[turn]
        PROVE  steps[i].status = "completed"
    <2>1. CASE steps[i].kind = "tool"
      BY <2>1 DEF StepsInv
    <2>2. CASE steps[i].kind # "tool"
      <3> PICK t \in Turns : t = steps[i].turn
        BY DEF StepsInv
      <3>1. OfTurn(i, t) /\ HasStep(t) /\ steps[i].status \in {"running", "completed", "failed"}
        BY <1>1, <2>2 DEF OfTurn, StepsInv, StepRow
      <3>2. steps[i].status = Stage(t) /\ t # turn
        BY <1>2, <1>3, <1>5, <3>1 DEF HasStep
      <3> QED  BY <1>0, <3>1, <3>2 DEF Stage
    <2> QED  BY <2>1, <2>2
  <1> QED  BY <1>0, <1>3, <1>4, <1>5 DEF AgentsInv

LEMMA AttributionStep ==
  ASSUME Typed, FaultInv, RunInv, Running => HopInv /\ AgentsInv, AttributionInv, [Next]_vars
  PROVE  AttributionInv'
  <1> SUFFICES ASSUME faults' = 0, lease' = "held", absent' = {}, mode' # "parallel", Relay' \/ turn' <= Subtasks + 1,
                      pc' \in Failing \/ (pc' = "done" /\ task' = "failed")
               PROVE  /\ turn' \in Turns /\ HeldTurn' = turn' /\ HeldStep' = own'[turn']
                      /\ own'[turn'] \in DOMAIN steps' /\ OfTurn(own[turn], turn)'
                      /\ pc' # "fail_step" => steps'[own'[turn']].status = "failed"
                      /\ \A i \in DOMAIN steps' : i # own'[turn'] => steps'[i].status = "completed"
                      /\ \A a \in Agents : agents'[a] = "running" =>
                            a = agentOf'[turn'] /\ pc' \in {"fail_step", "fail_task", "fail_agent"}
    BY DEF AttributionInv
  <1>0. UNCHANGED <<mode, agentOf, absent, Relay>>
    BY ConfigRest
  <1>1. CASE Running
    <2>1. SaveModelCall /\ pc = "log" /\ pc' = "fail_step"
      <3>1. ~Side
        BY <1>0 DEF Side
      <3> QED  BY <1>0, <1>1, <3>1, Stops DEF Failing
    <2>2. UNCHANGED <<steps, agents, turn, own, hop>>
      BY <2>1 DEF SaveModelCall, AddCall, control
    <2>3. /\ turn \in Turns /\ HeldTurn = turn /\ HeldStep = own[turn]
          /\ own[turn] \in DOMAIN steps /\ OfTurn(own[turn], turn)
          /\ \A i \in DOMAIN steps : i # own[turn] => steps[i].status = "completed"
          /\ \A a \in Agents : agents[a] = "running" => a = agentOf[turn]
      BY <1>0, <1>1, <2>1, <2>2, AttributionBegins DEF RunInv
    <2> QED  BY <1>0, <2>1, <2>2, <2>3 DEF HeldTurn, HeldStep, Kind, Relay, OfTurn
  <1>2. CASE ~Running
    <2>1. /\ UNCHANGED <<turn, own, hop>> /\ faults = 0 /\ lease = "held"
          /\ (UNCHANGED pc /\ UNCHANGED rows) \/ FailStep \/ FailTask \/ FailAgent \/ FailPost
      BY <1>2, StopMoves
    <2>2. pc \in Failing \/ (pc = "done" /\ task = "failed")
      BY <2>1 DEF FailStep, FailTask, FailAgent, FailPost, Failing, rows
    <2>3. /\ turn \in Turns /\ HeldTurn = turn /\ HeldStep = own[turn]
          /\ own[turn] \in DOMAIN steps /\ OfTurn(own[turn], turn)
          /\ pc # "fail_step" => steps[own[turn]].status = "failed"
          /\ \A i \in DOMAIN steps : i # own[turn] => steps[i].status = "completed"
          /\ \A a \in Agents : agents[a] = "running" =>
                a = agentOf[turn] /\ pc \in {"fail_step", "fail_task", "fail_agent"}
      BY <1>0, <2>1, <2>2 DEF AttributionInv
    <2>4. HeldTurn' = turn /\ HeldStep' = own[turn]
      BY <1>0, <2>1, <2>3 DEF HeldTurn, HeldStep, Kind, Relay
    <2>5. CASE FailStep
      <3> PICK k \in Nat : k = own[turn] /\ k # 0
        BY <2>3 DEF Typed, RowsTyped
      <3>1. SetStep(k, "failed") /\ pc' = "fail_task"
        BY <2>3, <2>5 DEF FailStep, Goto
      <3>2. /\ agents' = agents /\ DOMAIN steps' = DOMAIN steps /\ steps'[k].status = "failed"
            /\ steps'[k].turn = steps[k].turn /\ steps'[k].kind = steps[k].kind
            /\ \A i \in DOMAIN steps : i # k => steps'[i] = steps[i]
        BY <2>3, <3>1, SetStepWrites DEF Typed
      <3>3. OfTurn(own[turn], turn)'
        BY <2>1, <2>3, <3>2 DEF OfTurn
      <3>4. \A a \in Agents : agents'[a] = "running" => a = agentOf'[turn']
        BY <1>0, <2>1, <2>3, <3>2
      <3>5. own'[turn'] = k /\ turn' = turn
        BY <2>1
      <3> QED  BY <2>3, <2>4, <3>1, <3>2, <3>3, <3>4, <3>5
    <2>6. CASE (UNCHANGED pc /\ UNCHANGED rows) \/ FailTask \/ FailPost
      <3>1. /\ UNCHANGED <<steps, agents>>
            /\ \/ pc' = pc
               \/ pc = "fail_task" /\ pc' = "fail_agent"
               \/ pc = "fail_post" /\ pc' = "done"
        BY <2>3, <2>6, TurnIs DEF FailTask, FailPost, SetTask, AddMessage, Goto, rows
      <3>2. OfTurn(own[turn], turn)'
        BY <2>1, <2>3, <3>1 DEF OfTurn
      <3> QED  BY <1>0, <2>1, <2>3, <2>4, <3>1, <3>2
    <2>7. CASE FailAgent
      <3>1. SetAgent(turn, "failed") /\ pc = "fail_agent" /\ pc' = "fail_post"
        BY <2>3, <2>7 DEF FailAgent, Goto
      <3>2. /\ steps' = steps /\ agents'[agentOf[turn]] = "failed"
            /\ \A a \in Agents : a # agentOf[turn] => agents'[a] = agents[a]
        BY <2>3, <3>1, SetAgentWrites DEF Typed
      <3>3. OfTurn(own[turn], turn)'
        BY <2>1, <2>3, <3>2 DEF OfTurn
      <3>4. \A a \in Agents : agents'[a] # "running"
        BY <2>3, <3>2
      <3> QED  BY <2>1, <2>3, <2>4, <3>1, <3>2, <3>3, <3>4
    <2> QED  BY <2>1, <2>5, <2>6, <2>7
  <1> QED  BY <1>1, <1>2
\* Every result has been persisted, and one of them is a failure.
LEMMA SiblingsBegin ==
  ASSUME Typed, CallsInv, StepsInv, SaidInv, HopInv, Leave, Side, turn = Subtasks + 1, AnyFailed
  PROVE  /\ hop'.turn \in WorkerTurns /\ First(hop'.turn)
         /\ hop'.step \in DOMAIN steps /\ steps[hop'.step].status = "failed"
         /\ \A w \in WorkerTurns : Kept(w)
  <1> PICK n \in Nat : n = Len(steps)
    BY DEF Typed, RowsTyped
  <1>0. /\ turn \in Nat /\ turn \in WorkerTurns /\ WorkerTurns \subseteq Turns /\ ~Relay /\ Concurrent
        /\ WorkerTurns = 2..(Subtasks + 1) /\ Subtasks \in Nat /\ Subtasks >= 1 /\ ~IsFinal
    BY TurnIs DEF Side, Relay, IsFinal
  <1>1. /\ pc = "leave" /\ Collecting
        /\ \A w \in WorkerTurns : call[w] \in {"answered", "failed"}
        /\ reply = IF call[turn] = "failed" THEN "error" ELSE "content"
    BY DEF Leave, Collecting, CallsInv
  <1>2. ASSUME NEW w \in WorkerTurns
        PROVE  /\ w \in Turns /\ w <= turn
               /\ Stage(w) = IF call[w] = "failed" THEN "failed" ELSE "completed"
    <2>1. w \in Turns /\ w \in Nat /\ w # 1 /\ w <= turn
      BY <1>0
    <2> QED  BY <1>0, <1>1, <2>1 DEF Stage, Starting, Leaving
  <1>3. ASSUME NEW w \in WorkerTurns
        PROVE  \E i \in DOMAIN steps : /\ OfTurn(i, w) /\ i = own[w]
                                       /\ steps[i].status = IF call[w] = "failed" THEN "failed" ELSE "completed"
    <2>1. w \in Turns /\ HasStep(w)
      BY <1>2, <1>3 DEF StepsInv
    <2>2. own[w] # 0 /\ OfTurn(own[w], w)
      BY <1>0, <1>2, <1>3, <2>1 DEF HasStep
    <2>3. own[w] \in DOMAIN steps
      BY <2>1, <2>2 DEF Typed, RowsTyped, HeldTyped
    <2> QED  BY <1>2, <1>3, <2>1, <2>2, <2>3 DEF HasStep
  <1>4. hop'.turn \in WorkerTurns /\ First(hop'.turn) /\ hop'.step = own[hop'.turn]
    <2>1. hop' = IF FirstError THEN [turn |-> turn, step |-> own[turn]] ELSE hop
      BY DEF Leave
    <2>2. CASE \E w \in WorkerTurns : w < turn /\ call[w] = "failed"
      BY <1>1, <2>1, <2>2 DEF FirstError, HopInv
    <2>3. CASE ~ \E w \in WorkerTurns : w < turn /\ call[w] = "failed"
      <3>1. \A w \in WorkerTurns : call[w] = "failed" => w = turn
        BY <1>0, <1>2, <2>3
      <3>2. call[turn] = "failed" /\ FirstError
        BY <1>0, <1>1, <2>3, <3>1 DEF AnyFailed, FirstError
      <3>3. First(turn)
        BY <1>0, <3>1, <3>2 DEF First
      <3> QED  BY <1>0, <2>1, <3>2, <3>3
    <2> QED  BY <2>2, <2>3
  <1>5. hop'.step \in DOMAIN steps /\ steps[hop'.step].status = "failed"
    <2> PICK f \in WorkerTurns : f = hop'.turn
      BY <1>4
    <2>1. call[f] = "failed" /\ hop'.step = own[f]
      BY <1>4 DEF First
    <2> QED  BY <1>3, <2>1
  <1>6. ASSUME NEW w \in WorkerTurns PROVE Kept(w)
    <2>1. call[w] = "answered" => Steps(w, "completed") # {}
      BY <1>3, <1>6 DEF Steps, OfTurn
    <2>2. call[w] = "failed" => Steps(w, "failed") # {}
      BY <1>3, <1>6 DEF Steps, OfTurn
    <2>3. \A i \in DOMAIN outputs : outputs[i] \in Turns
      BY DEF Typed, TalkTyped
    <2>4. CASE Behind
      <3>1. messages = Append(Said(outputs), Answer(turn)) /\ reply = "content" /\ call[turn] = "answered"
        BY <1>0, <1>1, <2>4 DEF SaidInv, Behind
      <3>2. AnswerOf(w) <=> Heard(w) \/ w = turn
        <4> PICK k \in Nat : k = Len(outputs) /\ DOMAIN outputs = 1..k
          BY DEF Typed, TalkTyped
        <4>1. Said(outputs) \in Seq([turn : Turns, kind : {"answer"}]) /\ Len(Said(outputs)) = k
          <5>1. \A i \in 1..k : Said(outputs)[i] \in [turn : Turns, kind : {"answer"}]
            BY <2>3 DEF Said, Answer
          <5>2. Said(outputs) = [i \in 1..k |-> Said(outputs)[i]]
            BY DEF Said
          <5> QED  BY <5>1, <5>2, SequenceOf
        <4>2. /\ DOMAIN messages = 1..(k + 1) /\ messages[k + 1] = Answer(turn)
              /\ \A i \in 1..k : messages[i] = Answer(outputs[i])
          <5> PICK row : row = Answer(turn)
            OBVIOUS
          <5>1. DOMAIN messages = 1..(k + 1) /\ messages[k + 1] = row /\ \A i \in 1..k : messages[i] = Said(outputs)[i]
            BY <3>1, <4>1
          <5>2. \A i \in 1..k : Said(outputs)[i] = Answer(outputs[i])
            BY DEF Said
          <5> QED  BY <5>1, <5>2
        <4>3. \A t, u : Answer(t) = Answer(u) <=> t = u
          BY DEF Answer
        <4>4. \A i \in 1..(k + 1) : i \in 1..k \/ i = k + 1
          OBVIOUS
        <4>5. k + 1 \in 1..(k + 1) /\ \A i \in 1..k : i \in 1..(k + 1)
          OBVIOUS
        <4> QED  BY <4>2, <4>3, <4>4, <4>5 DEF AnswerOf, Heard
      <3>3. call[w] = "failed" => ~Heard(w) /\ w # turn
        BY <1>2, <1>6, <3>1 DEF SaidInv
      <3>4. call[w] = "answered" => Heard(w) \/ w = turn
        BY <1>0, <1>2, <1>6 DEF SaidInv
      <3> QED  BY <2>1, <2>2, <3>2, <3>3, <3>4 DEF Kept
    <2>5. CASE ~Behind
      <3>1. messages = Said(outputs) /\ call[turn] = "failed"
        BY <1>0, <1>1, <2>5 DEF SaidInv, Behind, Ahead
      <3>2. AnswerOf(w) <=> Heard(w)
        BY <3>1 DEF AnswerOf, Said, Heard, Answer
      <3>3. call[w] = "failed" => ~Heard(w)
        BY <1>2, <1>6 DEF SaidInv
      <3>4. call[w] = "answered" => Heard(w)
        BY <1>0, <1>2, <1>6, <3>1 DEF SaidInv
      <3> QED  BY <2>1, <2>2, <3>2, <3>3, <3>4 DEF Kept
    <2> QED  BY <2>4, <2>5
  <1> QED  BY <1>4, <1>5, <1>6

LEMMA SiblingsStep ==
  ASSUME Typed, FaultInv, RunInv, Running => HopInv, SiblingsInv, [Next]_vars
  PROVE  SiblingsInv'
  <1> SUFFICES ASSUME faults' = 0, lease' = "held", pc' \in Failing \cup {"done"}, AnyFailed'
               PROVE  /\ hop'.turn \in WorkerTurns /\ First(hop.turn)'
                      /\ hop'.step \in DOMAIN steps' /\ steps'[hop'.step].status = "failed"
                      /\ \A w \in WorkerTurns : Kept(w)'
                      /\ pc' = "done" => Len(messages') > 0 /\ messages'[Len(messages')].turn = hop'.turn
    BY DEF SiblingsInv
  <1>1. CASE Running
    <2>1. AnyFailed /\ call' = call
      BY <1>1, Stops DEF AnyFailed
    <2>2. Collecting \/ pc = "gather"
      BY <1>1, <2>1 DEF RunInv, CallsInv, AnyFailed
    <2>3. Leave /\ Side /\ turn = Subtasks + 1 /\ pc' = "fail_step"
      BY <1>1, <2>2, Stops, TurnIs DEF Collecting, Side
    <2>4. UNCHANGED <<steps, messages, call>>
      BY <2>3 DEF Leave, SetAgent
    <2>5. /\ hop'.turn \in WorkerTurns /\ First(hop'.turn)
          /\ hop'.step \in DOMAIN steps /\ steps[hop'.step].status = "failed"
          /\ \A w \in WorkerTurns : Kept(w)
      BY <1>1, <2>1, <2>3, SiblingsBegin DEF RunInv
    <2> QED  BY <2>3, <2>4, <2>5 DEF First, Kept, Steps, AnswerOf
  <1>2. CASE ~Running
    <2>1. /\ UNCHANGED <<turn, own, hop, call>> /\ faults = 0 /\ lease = "held"
          /\ (UNCHANGED pc /\ UNCHANGED rows) \/ FailStep \/ FailTask \/ FailAgent \/ FailPost
      BY <1>2, StopMoves
    <2>2. pc \in Failing \cup {"done"} /\ AnyFailed
      BY <2>1 DEF FailStep, FailTask, FailAgent, FailPost, Failing, AnyFailed
    <2>3. /\ hop.turn \in WorkerTurns /\ First(hop.turn)
          /\ hop.step \in DOMAIN steps /\ steps[hop.step].status = "failed"
          /\ \A w \in WorkerTurns : Kept(w)
          /\ pc = "done" => Len(messages) > 0 /\ messages[Len(messages)].turn = hop.turn
      BY <2>1, <2>2 DEF SiblingsInv
    <2>4. First(hop.turn)' /\ hop'.turn \in WorkerTurns
      BY <2>1, <2>3 DEF First
    <2>5. hop.turn # 0 /\ hop.step # 0 /\ hop.step \in Nat /\ HeldTurn = hop.turn /\ HeldStep = hop.step /\ HeldTurn \in 0..MaxTurn
      <3>1. hop.turn # 0 /\ hop.step # 0 /\ hop.step \in Nat
        BY <2>3, TurnIs DEF Typed, RowsTyped
      <3> QED  BY <3>1, HeldIsTyped DEF HeldTurn, HeldStep
    <2>6. CASE FailStep
      <3> PICK k \in Nat : k = hop.step
        BY <2>5
      <3>1. SetStep(k, "failed") /\ pc' = "fail_task"
        BY <2>5, <2>6 DEF FailStep, Goto
      <3>2. /\ messages' = messages /\ DOMAIN steps' = DOMAIN steps
            /\ \A i \in DOMAIN steps : steps'[i].turn = steps[i].turn /\ steps'[i].kind = steps[i].kind
            /\ \A i \in DOMAIN steps : i # k => steps'[i].status = steps[i].status
            /\ steps'[k].status = "failed"
        BY <2>3, <3>1, SetStepWrites DEF Typed
      <3>3. \A i \in DOMAIN steps : steps'[i].status = steps[i].status
        BY <2>3, <3>2
      <3>4. ASSUME NEW w \in WorkerTurns PROVE Kept(w)'
        <4>1. \A s : Steps(w, s)' = Steps(w, s)
          BY <3>2, <3>3 DEF Steps
        <4> QED  BY <2>1, <2>3, <3>2, <3>4, <4>1 DEF Kept, AnswerOf
      <3> QED  BY <2>1, <2>3, <2>4, <3>1, <3>2, <3>4
    <2>7. CASE (UNCHANGED pc /\ UNCHANGED rows) \/ FailTask \/ FailAgent
      <3>1. UNCHANGED <<steps, messages>> /\ (pc' = pc \/ pc' \in {"fail_agent", "fail_post"})
        BY <2>7 DEF FailTask, FailAgent, SetTask, SetAgent, Goto, rows
      <3>2. \A w \in WorkerTurns : Kept(w)'
        BY <2>1, <2>3, <3>1 DEF Kept, Steps, AnswerOf
      <3> QED  BY <2>1, <2>3, <2>4, <3>1, <3>2
    <2>8. CASE FailPost
      <3> PICK t \in 0..MaxTurn : t = HeldTurn
        BY <2>5
      <3>1. AddMessage(t, "error") /\ steps' = steps
        BY <2>8 DEF FailPost, AddMessage
      <3>2. /\ DOMAIN messages' = 1..(Len(messages) + 1) /\ Len(messages') = Len(messages) + 1 /\ Len(messages) \in Nat
            /\ messages'[Len(messages) + 1] = [turn |-> t, kind |-> "error"] /\ DOMAIN messages = 1..Len(messages)
            /\ \A i \in DOMAIN messages : messages'[i] = messages[i]
        BY <3>1, AddMessageWrites DEF Typed
      <3>3. ASSUME NEW w \in WorkerTurns PROVE Kept(w)'
        <4>1. AnswerOf(w)' <=> AnswerOf(w)
          <5>1. Answer(w) # [turn |-> t, kind |-> "error"]
            BY DEF Answer
          <5> PICK m \in Nat : m = Len(messages)
            BY <3>2
          <5>2. \A i \in 1..(m + 1) : i \in 1..m \/ i = m + 1
            OBVIOUS
          <5>3. \A i \in 1..m : i \in 1..(m + 1)
            OBVIOUS
          <5> QED  BY <3>2, <5>1, <5>2, <5>3 DEF AnswerOf, Answer
        <4> QED  BY <2>1, <2>3, <3>1, <3>3, <4>1 DEF Kept, Steps
      <3>4. Len(messages') > 0 /\ messages'[Len(messages')].turn = hop'.turn
        BY <2>1, <2>5, <3>2
      <3> QED  BY <2>1, <2>3, <2>4, <3>1, <3>3, <3>4
    <2> QED  BY <2>1, <2>6, <2>7, <2>8
  <1> QED  BY <1>1, <1>2

\* A failure is recorded where it happened and nowhere else: beside the siblings
\* that answered (_run_workers_concurrently), and by the outer handlers
\* (_run_relay_task, _run_multi_agent_task), for any number of turns.
THEOREM FailuresKeptApart == Spec => []FailuresStayApart
  <1> DEFINE HopsInv == Running => HopInv /\ AgentsInv
  <1>1. Init => HopsInv /\ AttributionInv /\ SiblingsInv
    <2> SUFFICES ASSUME Init PROVE HopsInv /\ AttributionInv /\ SiblingsInv
      OBVIOUS
    <2>1. HopInv
      BY TypedInit, TurnIs DEF Init, HopInv, NoHop, Collecting, Relay
    <2>2. AgentsInv
      BY Counts DEF Init, AgentsInv
    <2> QED  BY <2>1, <2>2 DEF Init, AttributionInv, SiblingsInv, Failing
  <1>2. Typed /\ FaultInv /\ RunInv /\ HopsInv /\ [Next]_vars => HopsInv'
    BY RunningBack, HopStep, AgentsStep DEF RunInv
  <1>3. Typed /\ FaultInv /\ RunInv /\ HopsInv /\ AttributionInv /\ SiblingsInv /\ [Next]_vars
        => AttributionInv' /\ SiblingsInv'
    BY AttributionStep, SiblingsStep
  <1>4. Typed /\ AttributionInv /\ SiblingsInv => FailuresStayApart
    <2> SUFFICES ASSUME Typed, AttributionInv, SiblingsInv PROVE SiblingsKept /\ FailureIsAttributed
      BY DEF FailuresStayApart
    <2>1. SiblingsKept
      <3> SUFFICES ASSUME Undisturbed, AnyFailed
                   PROVE  /\ \A w \in WorkerTurns : Kept(w)
                          /\ call[messages[Len(messages)].turn] = "failed"
                          /\ \A w \in WorkerTurns : call[w] = "failed" => messages[Len(messages)].turn <= w
        BY DEF SiblingsKept, AnyFailed, Kept
      <3> QED  BY DEF SiblingsInv, Undisturbed, First
    <2>2. FailureIsAttributed
      <3> SUFFICES ASSUME Undisturbed, absent = {}, mode # "parallel", Kind(turn) \in {"hop", "plan", "worker"},
                          task = "failed"
                   PROVE  /\ Steps(turn, "failed") # {}
                          /\ \A t \in Turns : t # turn => Steps(t, "failed") = {}
                          /\ \A i \in DOMAIN steps : steps[i].status # "running"
                          /\ \A a \in Agents : agents[a] # "running"
        BY DEF FailureIsAttributed, BlamesTheFailedTurn
      <3>1. Relay \/ turn <= Subtasks + 1
        BY TurnIs, Kinds, Counts
      <3>2. /\ own[turn] \in DOMAIN steps /\ OfTurn(own[turn], turn) /\ steps[own[turn]].status = "failed"
            /\ \A i \in DOMAIN steps : i # own[turn] => steps[i].status = "completed"
            /\ \A a \in Agents : agents[a] # "running"
        BY <3>1 DEF AttributionInv, Undisturbed
      <3> QED  BY <3>2 DEF Steps, OfTurn
    <2> QED  BY <2>1, <2>2
  <1> QED  BY <1>1, <1>2, <1>3, <1>4, RunInvariant, PTL DEF Spec
=============================================================================
