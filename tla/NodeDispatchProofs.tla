-------------------------- MODULE NodeDispatchProofs --------------------------
(***************************************************************************)
(* The safety properties of NodeDispatch for any number of tasks, nodes,   *)
(* dispatches and cancel requests, any time limit and any number of faults. *)
(***************************************************************************)
EXTENDS NodeDispatch, WellFoundedInduction, TLAPS

\* What a dispatch that has begun knows of itself; what a cancel request has read.
Bound ==
    /\ \A d \in Dispatches :
          IF pc[d] = "none" THEN onTask[d] = NoTask
                            ELSE onTask[d] \in Tasks /\ onNode[d] \in Nodes
    /\ \A d \in Dispatches :
          pc[d] \in {"none", "begin", "count", "open", "broken"} => step[d] = "none"
    /\ \A r \in Requests :
          /\ request[r].at \in {"signal", "step", "task"} => request[r].task \in Tasks
          /\ request[r].at = "step" =>
                request[r].step \in Dispatches /\ step[request[r].step] # "none"

\* A dispatch closes its step, then settles its task, then ends.
Settled ==
    \A d \in Dispatches :
        /\ pc[d] \in {"settle", "release", "done"} => step[d] \in {"completed", "failed"}
        /\ pc[d] \in {"release", "done"} => task[onTask[d]] \in Terminal

\* The entry of a task that was dispatched once is its dispatch's, until somebody
\* takes it and sets the event.
Heard ==
    \A d \in Dispatches :
        /\ pc[d] \in {"none", "begin", "count", "open", "executing"} => result[d] = "none"
        /\ Sole(d) /\ pc[d] \in {"count", "open", "executing"} =>
              registry[onTask[d]] = d \/ event[d] = "set"
        /\ d \in found =>
              /\ pc[d] \in {"executing", "close", "settle", "release", "done"}
              /\ Sole(d) => /\ event[d] = "set"
                            /\ provider[onNode[d]] = "cursor" => result[d] # "success"

TypeInv == TypeOK /\ Bound
-----------------------------------------------------------------------------
(* The operators                                                           *)

\* A finite, nonempty set of positions has a last one.
LEMMA LastExists ==
  ASSUME NEW n \in Nat, NEW open, open \subseteq 1..n, open # {}
  PROVE  \E i \in open : \A j \in open : j <= i
  <1> DEFINE Left == {n - i : i \in open}
  <1>1. Left \subseteq Nat /\ Left # {}
    <2>1. \A i \in open : n - i \in Nat
      OBVIOUS
    <2> QED  BY <2>1
  <1>2. PICK x \in Left : \A y \in Left : ~(<<y, x>> \in OpToRel(<, Nat))
    <2>1. IsWellFoundedOn(OpToRel(<, Nat), Nat)
      BY NatLessThanWellFounded
    <2> QED  BY <1>1, <2>1, WFMin
  <1>3. PICK i \in open : x = n - i
    OBVIOUS
  <1>4. \A y \in Left : ~(y < x)
    BY <1>1, <1>2 DEF OpToRel
  <1>5. ASSUME NEW j \in open PROVE j <= i
    <2>1. ~(n - j < n - i)
      BY <1>3, <1>4
    <2> QED  BY <2>1
  <1> QED  BY <1>5

\* The step a cancel request finds is a running one of its task.
LEMMA LastRunningIsRunning ==
  ASSUME TypeOK, NEW t \in Tasks, LastRunning(t) # NoDispatch
  PROVE  /\ LastRunning(t) \in Dispatches
         /\ step[LastRunning(t)] = "running" /\ onTask[LastRunning(t)] = t
  <1> DEFINE open == {i \in DOMAIN opened : onTask[opened[i]] = t /\ step[opened[i]] = "running"}
  <1>1. opened \in Seq(Dispatches) /\ DOMAIN opened = 1..Len(opened) /\ Len(opened) \in Nat
    BY DEF TypeOK
  <1>2. open # {} /\ open \subseteq 1..Len(opened)
    BY <1>1 DEF LastRunning
  <1>3. \E i \in open : \A j \in open : j <= i
    BY <1>1, <1>2, LastExists
  <1> DEFINE last == CHOOSE i \in open : \A j \in open : j <= i
  <1>4. last \in open
    BY <1>3
  <1>5. LastRunning(t) = opened[last]
    BY <1>2 DEF LastRunning
  <1> QED  BY <1>1, <1>2, <1>4, <1>5

\* A load that is written is a load.
LEMMA WrittenLoad ==
  ASSUME TypeOK, NEW d \in Dispatches, onNode[d] \in Nodes, NEW c \in 0..MaxConcurrency,
         WriteNode(d, c)
  PROVE  node' \in [Nodes -> Load] /\ node'[onNode[d]] \in Load
  <1> DEFINE new == [count |-> c, status |-> Occupied(c)]
  <1>1. new \in Load /\ held[d] \in Load /\ node[onNode[d]] \in Load
    BY DispatchAssumption DEF TypeOK, Load, Occupied
  <1>2. /\ Column(d, "count", new) \in 0..MaxConcurrency
        /\ Column(d, "status", new) \in {"online", "busy", "offline"}
    BY <1>1 DEF Column, Load
  <1>3. [count |-> Column(d, "count", new), status |-> Column(d, "status", new)] \in Load
    BY <1>2 DEF Load
  <1>4. node' = [node EXCEPT ![onNode[d]] =
                   [count |-> Column(d, "count", new), status |-> Column(d, "status", new)]]
    BY DEF WriteNode
  <1> HIDE DEF new
  <1>5. node \in [Nodes -> Load]
    BY DEF TypeOK
  <1> QED  BY <1>3, <1>4, <1>5

LEMMA LoadedIsALoad ==
  ASSUME NEW c \in 0..MaxConcurrency
  PROVE  Loaded(c) \in 0..MaxConcurrency /\ Unloaded(c) \in 0..MaxConcurrency
  BY DispatchAssumption DEF Loaded, Unloaded

LEMMA FreshIsALoad == Fresh \in Load
  BY DispatchAssumption DEF Fresh, Load
-----------------------------------------------------------------------------
(* Types                                                                   *)

LEMMA InitTypeInv == Init => TypeInv
  <1> SUFFICES ASSUME Init PROVE TypeInv
    OBVIOUS
  <1>1. Fresh \in Load
    BY FreshIsALoad
  <1>2. TypeOK
    BY <1>1, DispatchAssumption DEF Init, TypeOK, Idle, Asking
  <1>3. Bound
    BY DEF Init, Bound, Idle
  <1> QED  BY <1>2, <1>3 DEF TypeInv

\* A dispatch that is scheduled is bound to its task and its node.
LEMMA ScheduleTypeInv ==
  ASSUME TypeInv, NEW d \in Dispatches, NEW t \in Tasks, NEW n \in Nodes, Schedule(d, t, n)
  PROVE  TypeInv'
  <1> USE DEF TypeInv, bridge, files, steps, nodes
  <1>1. TypeOK'
    BY DEF Schedule, TypeOK
  <1>2. Bound'
    BY DispatchAssumption DEF Schedule, TypeOK, Bound
  <1> QED  BY <1>1, <1>2

\* A dispatch goes on to a phase that suits its step.
LEMMA GoesOnBound ==
  ASSUME TypeInv, NEW d \in Dispatches, NEW phase, pc[d] # "none", phase # "none",
         pc' = [pc EXCEPT ![d] = phase], UNCHANGED <<onTask, onNode, request>>,
         \A e \in Dispatches \ {d} : step'[e] = step[e],
         step[d] # "none" => step'[d] # "none",
         phase \in {"begin", "count", "open", "broken"} => step'[d] = "none"
  PROVE  Bound'
  <1> USE DEF TypeInv, TypeOK, Bound
  <1>1. \A e \in Dispatches : pc'[e] = IF e = d THEN phase ELSE pc[e]
    OBVIOUS
  <1>2. \A e \in Dispatches : pc'[e] \in {"none", "begin", "count", "open", "broken"} => step'[e] = "none"
    BY <1>1
  <1>3. \A e \in Dispatches : step[e] # "none" => step'[e] # "none"
    OBVIOUS
  <1>4. \A r \in Requests : request'[r].at = "step" =>
            request'[r].step \in Dispatches /\ step'[request'[r].step] # "none"
    BY <1>3
  <1> QED  BY <1>1, <1>2, <1>4

\* The end of a bridge's wait, and one interval more.
LEMMA FinishTyped ==
  ASSUME TypeInv, NEW d \in Dispatches, pc[d] = "executing",
         NEW outcome \in {"success", "failure", "cancelled"}, Finish(d, outcome)
  PROVE  /\ pc' = [pc EXCEPT ![d] = "close"]
         /\ waited' \in [Dispatches -> 0..MaxPolls]
         /\ \E end \in {"success", "failure", "cancelled"} : result' = [result EXCEPT ![d] = end]
         /\ registry' \in [Tasks -> Dispatches \cup {NoDispatch}]
         /\ output' \subseteq Nodes \X Tasks
  <1> USE DEF TypeInv, TypeOK
  <1>1. \E end \in {"success", "failure", "cancelled"} : result' = [result EXCEPT ![d] = end]
    BY DEF Finish, Tested
  <1>2. registry' \in [Tasks -> Dispatches \cup {NoDispatch}] /\ output' \subseteq Nodes \X Tasks
    BY DEF Finish
  <1>3. pc' = [pc EXCEPT ![d] = "close"] /\ waited' \in [Dispatches -> 0..MaxPolls]
    BY DispatchAssumption DEF Finish
  <1> QED  BY <1>1, <1>2, <1>3

LEMMA WaitTyped ==
  ASSUME TypeInv, NEW d \in Dispatches, waited[d] < MaxPolls, Wait(d)
  PROVE  waited' \in [Dispatches -> 0..MaxPolls] /\ UNCHANGED <<pc, result, registry, output>>
  BY DispatchAssumption DEF Wait, TypeInv, TypeOK

LEMMA BridgeTypeInv ==
  ASSUME TypeInv, NEW d \in Dispatches, Poll(d) \/ Await(d)
  PROVE  TypeInv'
  <1> USE DEF TypeInv
  <1>1. pc[d] = "executing" /\ process' \in [Dispatches -> {"none", "running", "ended"}]
    BY DEF Poll, Await, ProcessResult, Interrupted, OutOfBudget, StillRunning, TypeOK
  <1>2. UNCHANGED <<provider, backend, onTask, onNode, held, event, marker, steps, nodes,
                    task, claimed, request, found, faults>>
    BY DEF Poll, Await
  <1>3. \/ \E outcome \in {"success", "failure", "cancelled"} : Finish(d, outcome)
        \/ waited[d] < MaxPolls /\ Wait(d)
    BY DEF Poll, Await, ProcessResult, Interrupted, OutOfBudget, StillRunning
  <1>4. CASE \E outcome \in {"success", "failure", "cancelled"} : Finish(d, outcome)
    <2>1. /\ pc' = [pc EXCEPT ![d] = "close"]
          /\ waited' \in [Dispatches -> 0..MaxPolls]
          /\ \E end \in {"success", "failure", "cancelled"} : result' = [result EXCEPT ![d] = end]
          /\ registry' \in [Tasks -> Dispatches \cup {NoDispatch}]
          /\ output' \subseteq Nodes \X Tasks
      BY <1>1, <1>4, FinishTyped
    <2>2. TypeOK'
      BY <1>1, <1>2, <2>1 DEF TypeOK, Running, steps, nodes
    <2>3. Bound'
      BY <1>1, <1>2, <2>1 DEF TypeOK, Bound, steps
    <2> QED  BY <2>2, <2>3
  <1>5. CASE waited[d] < MaxPolls /\ Wait(d)
    <2>1. waited' \in [Dispatches -> 0..MaxPolls] /\ UNCHANGED <<pc, result, registry, output>>
      BY <1>5, WaitTyped
    <2> QED  BY <1>1, <1>2, <2>1 DEF TypeOK, Bound, steps, nodes
  <1> QED  BY <1>3, <1>4, <1>5

LEMMA CoroutineTypeInv ==
  ASSUME TypeInv, NEW d \in Dispatches, Coroutine(d)
  PROVE  TypeInv'
  <1> USE DEF TypeInv, bridge, files, steps, nodes
  <1>1. CASE Begin(d)
    <2>1. ASSUME onNode[d] \in deleted PROVE TypeOK'
      BY <1>1, <2>1 DEF Begin, TypeOK
    <2>2. ASSUME onNode[d] \notin deleted PROVE TypeOK'
      <3>1. held' = [held EXCEPT ![d] = node[onNode[d]]] /\ onNode[d] \in Nodes
        BY <1>1, <2>2 DEF Begin, Bound
      <3>2. registry' \in [Tasks -> Dispatches \cup {NoDispatch}] /\ output' \subseteq Nodes \X Tasks
        BY <1>1, <2>2 DEF Begin, RegisterCancelEvent, PrepareTask, TypeOK
      <3>3. held' \in [Dispatches -> Load]
        BY <3>1 DEF TypeOK
      <3> QED  BY <1>1, <2>2, <3>2, <3>3 DEF Begin, TypeOK, Running
    <2>3. Bound'
      BY <1>1, GoesOnBound DEF Begin, Bound
    <2> QED  BY <2>1, <2>2, <2>3
  <1>2. CASE Count(d)
    <2>1. onNode[d] \in Nodes /\ held[d].count \in 0..MaxConcurrency
      BY <1>2 DEF Count, TypeOK, Bound, Load
    <2>4. UNCHANGED <<provider, backend, onTask, onNode, bridge, event, registry, files, steps,
                      deleted, task, claimed, request, found, faults>>
      BY <1>2 DEF Count
    <2>2. CASE onNode[d] \in deleted
      <3>1. pc' = [pc EXCEPT ![d] = "broken"] /\ held' = [held EXCEPT ![d] = Fresh] /\ node' = node
        BY <1>2, <2>2 DEF Count
      <3>2. TypeOK'
        BY <2>4, <3>1, FreshIsALoad DEF TypeOK
      <3>3. Bound'
        BY <1>2, <2>2, GoesOnBound DEF Count, Bound
      <3> QED  BY <3>2, <3>3
    <2>3. CASE onNode[d] \notin deleted
      <3>1. node' \in [Nodes -> Load] /\ node'[onNode[d]] \in Load
        BY <1>2, <2>1, <2>3, WrittenLoad, LoadedIsALoad DEF Count
      <3>2. TypeOK'
        <4>1. /\ pc' = [pc EXCEPT ![d] = "open"]
              /\ held' = [held EXCEPT ![d] = node'[onNode[d]]]
          BY <1>2, <2>3 DEF Count
        <4> QED  BY <2>4, <3>1, <4>1 DEF TypeOK, Running
      <3>3. Bound'
        BY <1>2, <2>3, GoesOnBound DEF Count, Bound
      <3> QED  BY <3>2, <3>3
    <2> QED  BY <2>2, <2>3
  <1>3. CASE OpenStep(d)
    <2>1. TypeOK'
      BY <1>3 DEF OpenStep, Opens, TypeOK, Running
    <2>2. Bound'
      BY <1>3 DEF OpenStep, Opens, TypeOK, Bound
    <2> QED  BY <2>1, <2>2
  <1>4. CASE Poll(d) \/ Await(d)
    BY <1>4, BridgeTypeInv
  <1>5. CASE CloseStep(d)
    <2>1. TypeOK'
      BY <1>5 DEF CloseStep, TypeOK, Running
    <2>2. Bound'
      BY <1>5 DEF CloseStep, TypeOK, Bound
    <2> QED  BY <2>1, <2>2
  <1>6. CASE SettleTask(d)
    <2>1. TypeOK'
      BY <1>6 DEF SettleTask, TypeOK, Running, Outcome, Terminal
    <2>2. Bound'
      BY <1>6 DEF SettleTask, TypeOK, Bound
    <2> QED  BY <2>1, <2>2
  <1>7. CASE Release(d)
    <2>1. onNode[d] \in Nodes /\ held[d].count \in 0..MaxConcurrency
      BY <1>7 DEF Release, TypeOK, Bound, Load
    <2>2. node' \in [Nodes -> Load]
      BY <1>7, <2>1, WrittenLoad, LoadedIsALoad DEF Release, TypeOK
    <2>3. TypeOK'
      BY <1>7, <2>2, FreshIsALoad DEF Release, TypeOK
    <2>4. Bound'
      BY <1>7, GoesOnBound DEF Release
    <2> QED  BY <2>3, <2>4
  <1> QED  BY <1>1, <1>2, <1>3, <1>4, <1>5, <1>6, <1>7 DEF Coroutine

\* A cancel request goes on.
LEMMA GotoTyped ==
  ASSUME TypeOK, NEW r \in Requests,
         NEW at \in {"idle", "signal", "step", "task", "done"}, Goto(r, at)
  PROVE  /\ request' \in [Requests -> Asking]
         /\ request'[r].at = at /\ request'[r].task = request[r].task
         /\ \A q \in Requests \ {r} : request'[q] = request[q]
  <1>1. request \in [Requests -> Asking]
    BY DEF TypeOK
  <1>2. request' = [request EXCEPT ![r] = [request[r] EXCEPT !.at = at]]
    BY <1>1 DEF Goto
  <1>3. [request[r] EXCEPT !.at = at] \in Asking
    BY <1>1 DEF Asking
  <1> QED  BY <1>1, <1>2, <1>3 DEF Asking

LEMMA CancelTypeInv ==
  ASSUME TypeInv, NEW r \in Requests, Cancel(r)
  PROVE  TypeInv'
  <1> USE DEF TypeInv, bridge, files, steps, nodes
  <1>1. ASSUME NEW t \in Tasks, CancelRequest(r, t) PROVE TypeInv'
    <2>1. TypeOK'
      BY <1>1 DEF CancelRequest, TypeOK, Idle, Asking
    <2>2. Bound'
      BY <1>1 DEF CancelRequest, TypeOK, Bound
    <2> QED  BY <2>1, <2>2
  <1>2. CASE CancelSignal(r)
    <2> DEFINE t == request[r].task
               d == LastRunning(t)
    <2>1. t \in Tasks
      BY <1>2 DEF CancelSignal, Bound
    <2>2. CASE d = NoDispatch
      <3>1. /\ request' \in [Requests -> Asking]
            /\ request'[r].at = "task" /\ request'[r].task = t
            /\ \A q \in Requests \ {r} : request'[q] = request[q]
        BY <1>2, <2>2, GotoTyped DEF CancelSignal
      <3>2. TypeOK'
        BY <1>2, <2>2, <3>1 DEF CancelSignal, TypeOK
      <3>3. Bound'
        <4>1. UNCHANGED <<pc, onTask, onNode, step>>
          BY <1>2 DEF CancelSignal
        <4> QED  BY <2>1, <3>1, <4>1 DEF Bound
      <3> QED  BY <3>2, <3>3
    <2>3. CASE d # NoDispatch
      <3>1. d \in Dispatches /\ step[d] = "running" /\ onTask[d] = t
        BY <2>1, <2>3, LastRunningIsRunning
      <3>2. onNode[d] \in Nodes
        BY <3>1 DEF Bound
      <3> HIDE DEF d
      <3>3. /\ request' = [request EXCEPT ![r].at = "step", ![r].step = d]
            /\ registry' = [registry EXCEPT ![t] = NoDispatch]
            /\ event' = IF registry[t] = NoDispatch THEN event
                        ELSE [event EXCEPT ![registry[t]] = "set"]
            /\ LeaveMarker(d)
            /\ found' = IF pc[d] = "executing" THEN found \cup {d} ELSE found
        BY <1>2, <2>3 DEF CancelSignal, d
      <3>4. marker' \subseteq Nodes \X Tasks /\ faults' \in 0..MaxFaults
        BY <3>1, <3>2, <3>3, <2>1, DispatchAssumption DEF LeaveMarker, Dir, TypeOK
      <3>5. /\ request' \in [Requests -> Asking]
            /\ request'[r].at = "step" /\ request'[r].step = d
            /\ \A q \in Requests \ {r} : request'[q] = request[q]
        <4>1. request \in [Requests -> Asking]
          BY DEF TypeOK
        <4>2. request' = [request EXCEPT ![r] = [request[r] EXCEPT !.at = "step", !.step = d]]
          BY <3>3, <4>1
        <4>3. [request[r] EXCEPT !.at = "step", !.step = d] \in Asking
          BY <3>1, <4>1 DEF Asking
        <4> QED  BY <4>1, <4>2, <4>3 DEF Asking
      <3>6. TypeOK'
        BY <1>2, <3>1, <3>3, <3>4, <3>5 DEF CancelSignal, TypeOK
      <3>7. Bound'
        <4>1. request'[r].task \in Tasks
          BY <1>2, <2>1, <3>3 DEF TypeOK
        <4>2. UNCHANGED <<pc, onTask, onNode, step>>
          BY <1>2 DEF CancelSignal
        <4> QED  BY <3>1, <3>5, <4>1, <4>2 DEF Bound
      <3> QED  BY <3>6, <3>7
    <2> QED  BY <2>2, <2>3
  <1>3. CASE CancelStep(r)
    <2>1. /\ request' \in [Requests -> Asking]
          /\ request'[r].at = "task" /\ request'[r].task = request[r].task
          /\ \A q \in Requests \ {r} : request'[q] = request[q]
      BY <1>3, GotoTyped DEF CancelStep
    <2>2. TypeOK'
      BY <1>3, <2>1 DEF CancelStep, TypeOK
    <2>3. \A e \in Dispatches : step[e] # "none" => step'[e] # "none"
      BY <1>3 DEF CancelStep, TypeOK
    <2>4. \A e \in Dispatches : step[e] = "none" => step'[e] = "none"
      BY <1>3 DEF CancelStep, TypeOK, Bound
    <2>5. Bound'
      BY <1>3, <2>1, <2>3, <2>4 DEF CancelStep, Bound
    <2> QED  BY <2>2, <2>5
  <1>4. CASE CancelTask(r)
    <2>1. TypeOK'
      BY <1>4 DEF CancelTask, TypeOK, Idle, Asking, Terminal
    <2>2. Bound'
      BY <1>4 DEF CancelTask, TypeOK, Bound, Idle
    <2> QED  BY <2>1, <2>2
  <1> QED  BY <1>1, <1>2, <1>3, <1>4 DEF Cancel

LEMMA EnvironmentTypeInv ==
  ASSUME TypeInv,
         \/ \E d \in Dispatches : ProcessEnds(d) \/ Age(d)
         \/ \E n \in Nodes, report \in Reports : Heartbeat(n, report)
         \/ \E n \in Nodes : DeleteNode(n)
         \/ \E n \in Nodes, t \in Tasks : HostWrites(n, t)
         \/ \E t \in Tasks : WorkerClaims(t) \/ WorkerFails(t)
         \/ Stop \/ Start
  PROVE  TypeInv'
  <1> USE DEF TypeInv, TypeOK, Bound, bridge, files, steps, nodes
  <1>1. ASSUME NEW d \in Dispatches, ProcessEnds(d) PROVE TypeInv'
    BY <1>1 DEF ProcessEnds
  <1>2. ASSUME NEW d \in Dispatches, Age(d) PROVE TypeInv'
    BY <1>2 DEF Age
  <1>3. ASSUME NEW n \in Nodes, NEW report \in Reports, Heartbeat(n, report) PROVE TypeInv'
    <2>1. node' \in [Nodes -> Load]
      BY <1>3, DispatchAssumption DEF Heartbeat, Load
    <2>2. faults' \in 0..MaxFaults
      BY <1>3, DispatchAssumption DEF Heartbeat, Disturb
    <2>3. UNCHANGED <<provider, backend, pc, onTask, onNode, held, bridge, event, registry,
                      files, steps, deleted, task, claimed, request, found>>
      BY <1>3 DEF Heartbeat
    <2> QED  BY <2>1, <2>2, <2>3
  <1>4. ASSUME NEW n \in Nodes, DeleteNode(n) PROVE TypeInv'
    BY <1>4, DispatchAssumption DEF DeleteNode, Disturb
  <1>5. ASSUME NEW n \in Nodes, NEW t \in Tasks, HostWrites(n, t) PROVE TypeInv'
    BY <1>5 DEF HostWrites
  <1>6. ASSUME NEW t \in Tasks, WorkerClaims(t) PROVE TypeInv'
    BY <1>6 DEF WorkerClaims
  <1>7. ASSUME NEW t \in Tasks, WorkerFails(t) PROVE TypeInv'
    BY <1>7 DEF WorkerFails, Terminal
  <1>8. CASE Stop
    <2>1. TypeOK'
      BY <1>8, FreshIsALoad, DispatchAssumption DEF Stop, Idle, Asking, Running
    <2>2. Bound'
      BY <1>8 DEF Stop, Idle, Running
    <2> QED  BY <2>1, <2>2
  <1>9. CASE Start
    <2>1. TypeOK'
      BY <1>9 DEF Start, Terminal
    <2>2. Bound'
      BY <1>9 DEF Start, Orphans
    <2> QED  BY <2>1, <2>2
  <1> QED  BY <1>1, <1>2, <1>3, <1>4, <1>5, <1>6, <1>7, <1>8, <1>9

LEMMA NextTypeInv == TypeInv /\ [Next]_vars => TypeInv'
  <1> SUFFICES ASSUME TypeInv, [Next]_vars PROVE TypeInv'
    OBVIOUS
  <1>1. CASE Next
    BY <1>1, ScheduleTypeInv, CoroutineTypeInv, CancelTypeInv, EnvironmentTypeInv
       DEF Next, CreateNodeTask, DispatchToNode
  <1>2. CASE UNCHANGED vars
    BY <1>2 DEF TypeInv, TypeOK, Bound, vars, bridge, files, steps, nodes
  <1> QED  BY <1>1, <1>2

\* Every variable keeps its type: a node's load stays between 0 and its maximum
\* whatever dispatches and heartbeats overwrite (integration_service.py).
THEOREM TypeCorrect == Spec => []TypeOK
  <1>1. TypeInv => TypeOK
    BY DEF TypeInv
  <1> QED  BY <1>1, InitTypeInv, NextTypeInv, PTL DEF Spec
-----------------------------------------------------------------------------
(* The end of a dispatch                                                   *)

\* A step that is closed stays closed, and a task that is over stays over,
\* whoever writes them once more.
LEMMA EndsStay ==
  ASSUME TypeInv, [Next]_vars
  PROVE  /\ \A d \in Dispatches : step[d] \in {"completed", "failed"} =>
                                     step'[d] \in {"completed", "failed"}
         /\ \A t \in Tasks : task[t] \in Terminal => task'[t] \in Terminal
  <1> DEFINE Stay == /\ \A d \in Dispatches : step[d] \in {"completed", "failed"} =>
                                                 step'[d] \in {"completed", "failed"}
                     /\ \A t \in Tasks : task[t] \in Terminal => task'[t] \in Terminal
  <1> SUFFICES Stay
    OBVIOUS
  <1> USE DEF TypeInv, TypeOK, Bound, Terminal, steps
  <1>1. ASSUME NEW d \in Dispatches, NEW t \in Tasks, NEW n \in Nodes, Schedule(d, t, n)
        PROVE  Stay
    BY <1>1 DEF Schedule
  <1>2. ASSUME NEW d \in Dispatches, Coroutine(d) PROVE Stay
    <2>1. CASE Begin(d) \/ Count(d) \/ Poll(d) \/ Await(d) \/ Release(d)
      BY <2>1 DEF Begin, Count, Poll, Await, Release
    <2>2. CASE OpenStep(d)
      BY <2>2 DEF OpenStep, Opens
    <2>3. CASE CloseStep(d)
      BY <2>3 DEF CloseStep
    <2>4. CASE SettleTask(d)
      BY <2>4 DEF SettleTask, Outcome
    <2> QED  BY <1>2, <2>1, <2>2, <2>3, <2>4 DEF Coroutine
  <1>3. ASSUME NEW r \in Requests, Cancel(r) PROVE Stay
    <2>1. ASSUME NEW t \in Tasks, CancelRequest(r, t) PROVE Stay
      BY <2>1 DEF CancelRequest
    <2>2. CASE CancelSignal(r)
      BY <2>2 DEF CancelSignal
    <2>3. CASE CancelStep(r)
      BY <2>3 DEF CancelStep
    <2>4. CASE CancelTask(r)
      BY <2>4 DEF CancelTask
    <2> QED  BY <1>3, <2>1, <2>2, <2>3, <2>4 DEF Cancel
  <1>4. ASSUME NEW d \in Dispatches, ProcessEnds(d) \/ Age(d) PROVE Stay
    BY <1>4 DEF ProcessEnds, Age
  <1>5. ASSUME NEW n \in Nodes, \/ \E report \in Reports : Heartbeat(n, report)
                                \/ DeleteNode(n)
                                \/ \E t \in Tasks : HostWrites(n, t)
        PROVE  Stay
    BY <1>5 DEF Heartbeat, DeleteNode, HostWrites
  <1>6. ASSUME NEW t \in Tasks, WorkerClaims(t) \/ WorkerFails(t) PROVE Stay
    BY <1>6 DEF WorkerClaims, WorkerFails
  <1>7. CASE Stop
    BY <1>7 DEF Stop
  <1>8. CASE Start
    BY <1>8 DEF Start
  <1>9. CASE UNCHANGED vars
    BY <1>9 DEF vars
  <1> HIDE DEF Stay
  <1> QED
    BY <1>1, <1>2, <1>3, <1>4, <1>5, <1>6, <1>7, <1>8, <1>9
       DEF Next, CreateNodeTask, DispatchToNode

\* How a dispatch gets to the phases after its bridge, and that it keeps its task.
LEMMA LastPhases ==
  ASSUME TypeInv, [Next]_vars, NEW d \in Dispatches
  PROVE  /\ pc'[d] \in {"settle", "release", "done"} =>
               pc[d] \in {"settle", "release", "done"} \/ CloseStep(d)
         /\ pc'[d] \in {"release", "done"} => pc[d] \in {"release", "done"} \/ SettleTask(d)
         /\ pc[d] # "none" => UNCHANGED <<onTask[d], onNode[d]>>
  <1> DEFINE Moves ==
         /\ pc'[d] \in {"settle", "release", "done"} =>
               pc[d] \in {"settle", "release", "done"} \/ CloseStep(d)
         /\ pc'[d] \in {"release", "done"} => pc[d] \in {"release", "done"} \/ SettleTask(d)
         /\ pc[d] # "none" => UNCHANGED <<onTask[d], onNode[d]>>
  <1> SUFFICES Moves
    OBVIOUS
  <1> USE DEF TypeInv, TypeOK
  <1>1. ASSUME NEW e \in Dispatches, NEW t \in Tasks, NEW n \in Nodes, Schedule(e, t, n)
        PROVE  Moves
    BY <1>1 DEF Schedule
  <1>2. ASSUME NEW e \in Dispatches, Coroutine(e) PROVE Moves
    <2>1. UNCHANGED <<onTask, onNode>>
      BY <1>2 DEF Coroutine, Begin, Count, OpenStep, Poll, Await, CloseStep, SettleTask, Release
    <2>2. CASE Begin(e) \/ Count(e) \/ OpenStep(e)
      BY <2>1, <2>2 DEF Begin, Count, OpenStep, Opens
    <2>3. CASE Poll(e) \/ Await(e)
      BY <2>1, <2>3 DEF Poll, Await, ProcessResult, Interrupted, OutOfBudget, StillRunning,
                        Finish, Wait
    <2>4. CASE CloseStep(e)
      BY <2>1, <2>4 DEF CloseStep
    <2>5. CASE SettleTask(e)
      BY <2>1, <2>5 DEF SettleTask
    <2>6. CASE Release(e)
      BY <2>1, <2>6 DEF Release
    <2> QED  BY <1>2, <2>2, <2>3, <2>4, <2>5, <2>6 DEF Coroutine
  <1>3. CASE Stop
    BY <1>3 DEF Stop
  <1>4. CASE UNCHANGED <<pc, onTask, onNode>>
    BY <1>4
  <1>5. ASSUME Next, ~Stop,
               ~\E e \in Dispatches, t \in Tasks, n \in Nodes : Schedule(e, t, n),
               ~\E e \in Dispatches : Coroutine(e)
        PROVE  UNCHANGED <<pc, onTask, onNode>>
    BY <1>5 DEF Next, CreateNodeTask, DispatchToNode, ProcessEnds, Age, Cancel, CancelRequest,
                CancelSignal, CancelStep, CancelTask, Heartbeat, DeleteNode, HostWrites,
                WorkerClaims, WorkerFails, Start
  <1> HIDE DEF Moves
  <1> QED  BY <1>1, <1>2, <1>3, <1>4, <1>5 DEF vars

LEMMA NextSettled == TypeInv /\ TypeInv' /\ Settled /\ [Next]_vars => Settled'
  <1> SUFFICES ASSUME TypeInv, TypeInv', Settled, [Next]_vars, NEW d \in Dispatches
               PROVE  /\ pc'[d] \in {"settle", "release", "done"} =>
                            step'[d] \in {"completed", "failed"}
                      /\ pc'[d] \in {"release", "done"} => task'[onTask'[d]] \in Terminal
    BY DEF Settled
  <1>1. CloseStep(d) => step'[d] \in {"completed", "failed"}
    BY DEF CloseStep, TypeInv, TypeOK
  <1>2. SettleTask(d) => task'[onTask'[d]] \in Terminal
    BY DEF SettleTask, Outcome, Terminal, TypeInv, TypeOK, Bound
  <1>3. pc[d] \in {"settle", "release", "done"} => step'[d] \in {"completed", "failed"}
    BY EndsStay DEF Settled
  <1>4. pc[d] \in {"release", "done"} => task'[onTask'[d]] \in Terminal
    <2>1. pc[d] \in {"release", "done"} => onTask[d] \in Tasks /\ onTask'[d] = onTask[d]
      BY LastPhases DEF TypeInv, Bound
    <2> QED  BY <2>1, EndsStay DEF Settled
  <1> QED  BY <1>1, <1>2, <1>3, <1>4, LastPhases

\* A dispatch that ran to its end leaves its step and its task settled: the writes of
\* cancel requests, workers, other dispatches and restarts only replace one end by
\* another (integration_service.py, tasks.py).
THEOREM EndIsSettled == Spec => []EndedDispatchIsSettled
  <1>1. Init => TypeInv /\ Settled
    BY InitTypeInv DEF Init, Settled
  <1>2. TypeInv /\ Settled /\ [Next]_vars => (TypeInv /\ Settled)'
    BY NextTypeInv, NextSettled
  <1>3. Settled => EndedDispatchIsSettled
    BY DEF Settled, EndedDispatchIsSettled
  <1> QED  BY <1>1, <1>2, <1>3, PTL DEF Spec
-----------------------------------------------------------------------------
(* The cancel event                                                        *)

\* A dispatch that shares its task now may have had it alone before, never the
\* other way round.
LEMMA SoleWas ==
  ASSUME TypeInv, [Next]_vars, NEW d \in Dispatches, pc[d] # "none", Sole(d)'
  PROVE  Sole(d)
  <1>1. SUFFICES ASSUME NEW e \in Dispatches, e # d PROVE onTask[e] # onTask[d]
    BY DEF Sole
  <1>2. onTask[d] \in Tasks /\ onTask'[d] = onTask[d] /\ onTask'[e] # onTask'[d]
    BY <1>1, LastPhases DEF Sole, TypeInv, Bound
  <1>3. CASE pc[e] = "none"
    BY <1>2, <1>3, DispatchAssumption DEF TypeInv, Bound
  <1>4. CASE pc[e] # "none"
    BY <1>2, <1>4, LastPhases
  <1> QED  BY <1>3, <1>4

\* What Heard says of one dispatch.
HeardBy(d) ==
    /\ pc[d] \in {"none", "begin", "count", "open", "executing"} => result[d] = "none"
    /\ Sole(d) /\ pc[d] \in {"count", "open", "executing"} =>
          registry[onTask[d]] = d \/ event[d] = "set"
    /\ d \in found =>
          /\ pc[d] \in {"executing", "close", "settle", "release", "done"}
          /\ Sole(d) => /\ event[d] = "set"
                        /\ provider[onNode[d]] = "cursor" => result[d] # "success"

\* Nothing that HeardBy reads of d has changed, but whose task is whose.
LEMMA HeardByUnchanged ==
  ASSUME TypeInv, [Next]_vars, NEW d \in Dispatches, HeardBy(d),
         pc[d] # "none", registry'[onTask[d]] = registry[onTask[d]],
         UNCHANGED <<pc[d], onTask[d], onNode[d], result[d], event[d], provider, found>>
  PROVE  HeardBy(d)'
  BY SoleWas DEF HeardBy

\* A dispatch's own steps: the bridge of one that heard returns no success.
LEMMA OwnStepHeard ==
  ASSUME TypeInv, [Next]_vars, NEW d \in Dispatches, HeardBy(d), Coroutine(d)
  PROVE  HeardBy(d)'
  <1> USE DEF TypeInv, TypeOK, bridge, files
  <1>1. pc[d] # "none" /\ UNCHANGED <<provider, onTask, onNode, event, found>>
    BY DEF Coroutine, Begin, Count, OpenStep, Opens, Poll, Await, CloseStep, SettleTask, Release
  <1>2. Sole(d)' => Sole(d)
    BY <1>1, SoleWas
  <1>3. CASE Begin(d)
    <2>1. d \notin found /\ result' = result
      BY <1>3 DEF Begin, HeardBy
    <2>2. pc'[d] = "broken" \/ (pc'[d] = "count" /\ registry'[onTask'[d]] = d)
      <3>1. CASE onNode[d] \in deleted
        BY <1>3, <3>1 DEF Begin
      <3>2. CASE onNode[d] \notin deleted
        <4>1. onTask'[d] \in Tasks /\ registry' = [registry EXCEPT ![onTask'[d]] = d]
          BY <1>1, <1>3, <3>2 DEF Begin, RegisterCancelEvent, Bound
        <4> QED  BY <1>3, <3>2, <4>1 DEF Begin
      <3> QED  BY <3>1, <3>2
    <2> QED  BY <1>1, <1>3, <2>1, <2>2 DEF HeardBy, Begin
  <1>4. CASE Count(d) \/ OpenStep(d)
    <2>1. d \notin found /\ UNCHANGED <<registry, result>>
      BY <1>4 DEF Count, OpenStep, Opens, HeardBy
    <2>2. pc[d] \in {"count", "open"} /\ pc'[d] \in {"broken", "open", "executing"}
      BY <1>4 DEF Count, OpenStep, Opens
    <2> QED  BY <1>1, <1>2, <2>1, <2>2 DEF HeardBy
  <1>5. CASE Poll(d) \/ Await(d)
    <2>1. pc[d] = "executing" /\ result[d] = "none"
      BY <1>5 DEF Poll, Await, HeardBy
    <2>2. CASE UNCHANGED <<pc, result, registry>>
      BY <1>1, <1>2, <2>1, <2>2 DEF HeardBy
    <2>3. ASSUME NEW outcome, Finish(d, outcome),
                 provider[onNode[d]] = "cursor" /\ outcome = "success" => ~IsCancelled(d)
          PROVE  HeardBy(d)'
      <3>1. pc'[d] = "close"
        BY <2>3 DEF Finish
      <3>2. PICK tested \in Tested(outcome) : result' = [result EXCEPT ![d] = tested]
        BY <2>3 DEF Finish
      <3>3. tested = "success" => outcome = "success"
        BY DEF Tested
      <3>4. event[d] = "set" => IsCancelled(d)
        BY DEF IsCancelled
      <3>5. result'[d] = "success" => tested = "success"
        BY <3>2
      <3>6. d \in found' /\ Sole(d)' => /\ event'[d] = "set"
                                        /\ provider'[onNode'[d]] = "cursor" => result'[d] # "success"
        BY <1>1, <1>2, <2>3, <3>3, <3>4, <3>5 DEF HeardBy
      <3> QED  BY <3>1, <3>6 DEF HeardBy
    <2>4. \/ UNCHANGED <<pc, result, registry>>
          \/ \E outcome : /\ Finish(d, outcome)
                          /\ provider[onNode[d]] = "cursor" /\ outcome = "success" => ~IsCancelled(d)
      <3>1. CASE Poll(d)
        BY <3>1 DEF Poll, Wait
      <3>2. CASE Await(d)
        BY <3>2 DEF Await, ProcessResult, Interrupted, OutOfBudget, StillRunning, Wait
      <3> QED  BY <1>5, <3>1, <3>2
    <2> QED  BY <2>2, <2>3, <2>4
  <1>6. CASE CloseStep(d) \/ SettleTask(d) \/ Release(d)
    <2>1. /\ pc[d] \in {"close", "settle", "release"} /\ pc'[d] \in {"settle", "release", "done"}
          /\ UNCHANGED result
      BY <1>6 DEF CloseStep, SettleTask, Release
    <2> QED  BY <1>1, <1>2, <2>1 DEF HeardBy
  <1> QED  BY <1>3, <1>4, <1>5, <1>6 DEF Coroutine

\* Another dispatch replaces or takes the entry of its own task only.
LEMMA OtherStepHeard ==
  ASSUME TypeInv, [Next]_vars, NEW d \in Dispatches, HeardBy(d),
         NEW e \in Dispatches, e # d, Coroutine(e)
  PROVE  HeardBy(d)'
  <1> USE DEF TypeInv, TypeOK, bridge, files
  <1>1. /\ UNCHANGED <<provider, onTask, onNode, event, found>>
        /\ pc'[d] = pc[d] /\ result'[d] = result[d]
    BY DEF Coroutine, Begin, Count, OpenStep, Opens, Poll, Await, ProcessResult, Interrupted,
           OutOfBudget, StillRunning, Finish, Wait, CloseStep, SettleTask, Release
  <1>2. \/ UNCHANGED registry
        \/ \E x : registry' = [registry EXCEPT ![onTask[e]] = x]
    BY DEF Coroutine, Begin, RegisterCancelEvent, Count, OpenStep, Poll, Await, ProcessResult,
           Interrupted, OutOfBudget, StillRunning, Finish, Wait, CloseStep, SettleTask, Release
  <1>3. pc[d] # "none" /\ Sole(d) => registry'[onTask[d]] = registry[onTask[d]]
    BY <1>2 DEF Sole, Bound
  <1>4. pc[d] # "none" /\ Sole(d)' => Sole(d)
    BY SoleWas
  <1> QED  BY <1>1, <1>3, <1>4 DEF HeardBy

\* A cancel request that finds d executing sets d's event: the registry's entry of
\* the task is d's, or d was told before.
LEMMA SignalHeard ==
  ASSUME TypeInv, [Next]_vars, NEW d \in Dispatches, HeardBy(d),
         NEW r \in Requests, CancelSignal(r)
  PROVE  HeardBy(d)'
  <1> USE DEF TypeInv, TypeOK
  <1> DEFINE t == request[r].task
             f == LastRunning(t)
  <1>1. UNCHANGED <<provider, pc, onTask, onNode, result>>
    BY DEF CancelSignal, bridge
  <1>2. CASE f = NoDispatch
    <2>1. UNCHANGED <<registry, event, found>>
      BY <1>2 DEF CancelSignal
    <2>2. pc[d] # "none" /\ Sole(d)' => Sole(d)
      BY SoleWas
    <2> QED  BY <1>1, <2>1, <2>2 DEF HeardBy
  <1>3. CASE f # NoDispatch
    <2>1. t \in Tasks
      BY DEF CancelSignal, Bound
    <2>2. f \in Dispatches /\ step[f] = "running" /\ onTask[f] = t
      BY <1>3, <2>1, LastRunningIsRunning
    <2> HIDE DEF f
    <2>3. /\ registry' = [registry EXCEPT ![t] = NoDispatch]
          /\ event' = IF registry[t] = NoDispatch THEN event
                      ELSE [event EXCEPT ![registry[t]] = "set"]
          /\ found' = IF pc[f] = "executing" THEN found \cup {f} ELSE found
      BY <1>3 DEF CancelSignal, f
    <2>4. event[d] = "set" => event'[d] = "set"
      BY <2>3
    <2>5. registry[t] = d => event'[d] = "set"
      BY <2>3, DispatchAssumption
    <2>6. onTask[d] # t => registry'[onTask[d]] = registry[onTask[d]]
      BY <2>3
    <2>7. pc[d] # "none" /\ Sole(d)' => Sole(d)
      BY SoleWas
    <2>8. Sole(d)' /\ pc'[d] \in {"count", "open", "executing"} =>
             registry'[onTask'[d]] = d \/ event'[d] = "set"
      BY <1>1, <2>4, <2>5, <2>6, <2>7 DEF HeardBy
    <2>9. d \in found' /\ d \notin found =>
             pc[d] = "executing" /\ (Sole(d)' => event'[d] = "set") /\ result[d] = "none"
      BY <2>2, <2>3, <2>4, <2>5, <2>7 DEF HeardBy
    <2>10. d \in found /\ Sole(d)' => event'[d] = "set" /\ (provider[onNode[d]] = "cursor" => result[d] # "success")
      BY <2>4, <2>7 DEF HeardBy
    <2> QED  BY <1>1, <2>8, <2>9, <2>10 DEF HeardBy
  <1> QED  BY <1>2, <1>3

LEMMA NextHeard == TypeInv /\ Heard /\ [Next]_vars => Heard'
  <1> SUFFICES ASSUME TypeInv, Heard, [Next]_vars, NEW d \in Dispatches
               PROVE  HeardBy(d)'
    BY DEF Heard, HeardBy
  <1>1. HeardBy(d)
    BY DEF Heard, HeardBy
  <1> USE DEF bridge
  <1>2. ASSUME NEW e \in Dispatches, NEW t \in Tasks, NEW n \in Nodes, Schedule(e, t, n)
        PROVE  HeardBy(d)'
    <2>1. pc[e] = "none" /\ pc' = [pc EXCEPT ![e] = "begin"]
          /\ UNCHANGED <<provider, registry, result, event, found>>
      BY <1>2 DEF Schedule
    <2>2. CASE e = d
      BY <1>1, <2>1, <2>2 DEF HeardBy, TypeInv, TypeOK
    <2>3. CASE e # d
      <3>1. pc'[d] = pc[d] /\ UNCHANGED <<onTask[d], onNode[d]>>
        BY <1>2, <2>3 DEF Schedule, TypeInv, TypeOK
      <3>2. CASE pc[d] = "none"
        BY <1>1, <2>1, <3>1, <3>2 DEF HeardBy
      <3>3. CASE pc[d] # "none"
        BY <1>1, <2>1, <3>1, <3>3, HeardByUnchanged
      <3> QED  BY <3>2, <3>3
    <2> QED  BY <2>2, <2>3
  <1>3. ASSUME NEW e \in Dispatches, Coroutine(e) PROVE HeardBy(d)'
    BY <1>1, <1>3, OwnStepHeard, OtherStepHeard
  <1>4. ASSUME NEW r \in Requests, CancelSignal(r) PROVE HeardBy(d)'
    BY <1>1, <1>4, SignalHeard
  <1>5. CASE Stop
    <2>1. pc'[d] \notin {"begin", "count", "open", "executing"} /\ found' = {} /\ result' = result
      BY <1>5 DEF Stop, Running, TypeInv, TypeOK
    <2>2. pc'[d] = "none" => pc[d] = "none"
      BY <1>5 DEF Stop, TypeInv, TypeOK
    <2> QED  BY <1>1, <2>1, <2>2 DEF HeardBy
  <1>6. CASE UNCHANGED <<provider, pc, onTask, onNode, result, event, registry, found>>
    BY <1>1, <1>6 DEF HeardBy, Sole
  <1>7. ASSUME Next, ~Stop,
               ~\E e \in Dispatches, t \in Tasks, n \in Nodes : Schedule(e, t, n),
               ~\E e \in Dispatches : Coroutine(e),
               ~\E r \in Requests : CancelSignal(r)
        PROVE  UNCHANGED <<provider, pc, onTask, onNode, result, event, registry, found>>
    BY <1>7 DEF Next, CreateNodeTask, DispatchToNode, ProcessEnds, Age, Cancel, CancelRequest,
                CancelStep, CancelTask, Heartbeat, DeleteNode, HostWrites,
                WorkerClaims, WorkerFails, Start
  <1>8. CASE UNCHANGED vars
    BY <1>6, <1>8 DEF vars
  <1> QED  BY <1>2, <1>3, <1>4, <1>5, <1>6, <1>7, <1>8

\* A cancel request that finds a dispatch executing is heard by it: for a task that was
\* dispatched once its own event is set, and a Cursor dispatch does not return a
\* success, whatever its host writes (integration_service.py, cursor_bridge.py).
THEOREM CancelHeard == Spec => []CancelIsHeard
  <1>1. Init => TypeInv /\ Heard
    BY InitTypeInv DEF Init, Heard
  <1>2. TypeInv /\ Heard /\ [Next]_vars => (TypeInv /\ Heard)'
    BY NextTypeInv, NextHeard
  <1>3. TypeInv /\ Heard => CancelIsHeard
    BY DEF Heard, CancelIsHeard, TypeInv, TypeOK
  <1> QED  BY <1>1, <1>2, <1>3, PTL DEF Spec
=============================================================================
