---------------------------- MODULE ApprovalProofs ----------------------------
(***************************************************************************)
(* Proofs about Approval, for every workflow and any number of handlers.   *)
(***************************************************************************)
EXTENDS Approval, TLAPS

\* The groups of variables are transparent throughout.
USE DEF row, gates, handler

-----------------------------------------------------------------------------
(* Types                                                                   *)

\* The flags stay Boolean.
LEMMA NextFlagsOK ==
  ASSUME FlagsOK, Next
  PROVE  FlagsOK'
  <1> USE ApprovalAssumption DEF FlagsOK, OthersSame, Return
  <1>1. ASSUME NEW g \in Gates, Wait(g) \/ GateRaises(g) PROVE FlagsOK'
    BY <1>1, Zenon DEF Wait, Open, Suspend, See, TimeOut, Note, Resume, Refuse, GateRaises
  <1>2. CASE Execute \/ Vanish
    BY <1>2, Zenon DEF Execute, Fail, FailRead, FailWrite, Abort, Complete, Vanish
  <1>3. CASE RenewTick \/ RenewerDies \/ Expire
    BY <1>3, Zenon DEF RenewTick, RenewerDies, Expire
  <1>4. CASE Sweep \/ Cancel
    BY <1>4, Zenon
       DEF Sweep, SweepRead, SweepWrite, Cancel, CancelRead, CancelWrite
  <1>5. ASSUME NEW h \in Handlers, Serve(h) PROVE FlagsOK'
    BY <1>5, Zenon DEF Serve, Check, Pick, Decide, Apply, GiveUp
  <1> QED  BY <1>1, <1>2, <1>3, <1>4, <1>5 DEF Next

\* The executor's steps at a gate keep the other types.
LEMMA GateTypeOK ==
  ASSUME TypeOK, NEW g \in Gates, Wait(g) \/ GateRaises(g), FlagsOK'
  PROVE  TypeOK'
  <1> USE ApprovalAssumption
      DEF TypeOK, GatePhase, AtGate, Status, Goto, OthersSame, Assign
  <1>1. CASE Open(g)       BY <1>1 DEF Open
  <1>2. CASE Suspend(g)    BY <1>2 DEF Suspend
  <1>3. CASE See(g)        BY <1>3 DEF See
  <1>4. CASE TimeOut(g)    BY <1>4 DEF TimeOut
  <1>5. CASE Note(g)       BY <1>5 DEF Note
  <1>6. CASE Resume(g)     BY <1>6 DEF Resume
  <1>7. CASE Refuse(g)
    <2>1. run' \in {"going", "done"}
      BY <1>7, Zenon DEF Refuse, Return
    <2> QED  BY <1>7, <2>1 DEF Refuse
  <1>8. CASE GateRaises(g) BY <1>8 DEF GateRaises
  <1> QED  BY <1>1, <1>2, <1>3, <1>4, <1>5, <1>6, <1>7, <1>8 DEF Wait

\* So do its other steps, the renewer's, the sweep's and a cancel's.
LEMMA RunTypeOK ==
  ASSUME TypeOK, FlagsOK',
         \/ Execute \/ Vanish
         \/ RenewTick \/ RenewerDies \/ Expire \/ Sweep \/ Cancel
  PROVE  TypeOK'
  <1> USE ApprovalAssumption
      DEF TypeOK, Status, OthersSame, WriteFailed
  <1>1. CASE Execute
    <2>1. run' \in {"going", "failing", "fail_write", "done", "gone"}
      BY <1>1, Zenon
         DEF Execute, Fail, FailRead, FailWrite, Abort, Complete, Return
    <2>2. status' \in Status /\ lease' \in {"none", "valid", "expired"}
      BY <1>1 DEF Execute, Fail, FailRead, FailWrite, Abort, Complete
    <2>3. UNCHANGED <<gates, handler, granted, faults>>
      BY <1>1, Zenon DEF Execute, Fail, FailRead, FailWrite, Abort, Complete
    <2> QED  BY <2>1, <2>2, <2>3
  <1>2. CASE Vanish \/ RenewerDies
    <2>1. run' \in {"going", "failing", "fail_write", "done", "gone"}
      BY <1>2, Zenon DEF Vanish, RenewerDies
    <2>2. faults' \in 0..MaxFaults
      BY <1>2 DEF Vanish, RenewerDies
    <2>3. UNCHANGED <<row, gates, handler, granted>>
      BY <1>2, Zenon DEF Vanish, RenewerDies
    <2> QED  BY <2>1, <2>2, <2>3
  <1>3. CASE RenewTick \/ Expire
    <2>1. lease' \in {"none", "valid", "expired"}
      BY <1>3, Zenon DEF RenewTick, Expire
    <2>2. UNCHANGED <<status, gates, run, handler, granted, faults>>
      BY <1>3, Zenon DEF RenewTick, Expire
    <2> QED  BY <2>1, <2>2
  <1>4. CASE Sweep \/ Cancel
    BY <1>4 DEF Sweep, SweepRead, SweepWrite, Cancel, CancelRead, CancelWrite
  <1> QED  BY <1>1, <1>2, <1>3, <1>4

\* And the approve and reject handlers'.
LEMMA HandlerTypeOK ==
  ASSUME TypeOK, FlagsOK', NEW h \in Handlers, Serve(h)
  PROVE  TypeOK'
  <1> USE ApprovalAssumption
      DEF TypeOK, Status, WriteFailed, End
  <1>1. CASE Check(h)   BY <1>1 DEF Check
  <1>2. ASSUME NEW g \in Gates, Pick(h, g) PROVE TypeOK'
    BY <1>2 DEF Pick, Latest
  <1>3. CASE Decide(h)  BY <1>3 DEF Decide
  <1>4. CASE Apply(h)   BY <1>4 DEF Apply
  <1>5. CASE GiveUp(h)  BY <1>5 DEF GiveUp
  <1> QED  BY <1>1, <1>2, <1>3, <1>4, <1>5 DEF Serve

\* They hold initially, and every step keeps them.
LEMMA InitTypeOK == Init => TypeOK
  <1> SUFFICES ASSUME Init PROVE TypeOK
    OBVIOUS
  <1>1. FlagsOK
    BY Zenon DEF Init, FlagsOK
  <1> HIDE DEF FlagsOK
  <1> QED  BY <1>1, ApprovalAssumption DEF Init, TypeOK, GatePhase, Status

LEMMA NextTypeOK == TypeOK /\ [Next]_vars => TypeOK'
  <1>1. CASE TypeOK /\ UNCHANGED vars
    BY <1>1 DEF vars, TypeOK, FlagsOK
  <1>2. CASE TypeOK /\ Next
    <2>1. FlagsOK'
      BY <1>2, NextFlagsOK DEF TypeOK
    <2> QED  BY <1>2, <2>1, GateTypeOK, RunTypeOK, HandlerTypeOK DEF Next
  <1> QED  BY <1>1, <1>2

\* The types hold throughout; a handler never writes a step of a gate that
\* has none.
THEOREM TypeCorrect == Spec => []TypeOK
  BY InitTypeOK, NextTypeOK, PTL DEF Spec

-----------------------------------------------------------------------------
(* Nothing behind a gate runs unapproved                                   *)

\* The strengthening: an approved step, and an executor that has seen or noted
\* an approval, owe it to a handler; a completed task has passed all gates,
\* and its executor moves no more.
GrantInv ==
    /\ \A g \in Gates :
          /\ step[g] = "approved" => g \in granted
          /\ gate[g] \in {"approved", "noted_approved", "passed"} => g \in granted
    /\ status = "completed" =>
          run = "done" /\ \A g \in Gates : gate[g] = "passed"

\* The executor keeps it at the gates: it passes with what it has polled, ...
LEMMA GateGrantInv ==
  ASSUME TypeOK, GrantInv, NEW g \in Gates, Wait(g) \/ GateRaises(g)
  PROVE  GrantInv'
  <1> USE DEF TypeOK, GrantInv, Goto, OthersSame, Assign
  <1>1. CASE Open(g)       BY <1>1 DEF Open
  <1>2. CASE Suspend(g)    BY <1>2 DEF Suspend
  <1>3. CASE See(g)        BY <1>3 DEF See
  <1>4. CASE TimeOut(g)    BY <1>4 DEF TimeOut
  <1>5. CASE Note(g)       BY <1>5 DEF Note
  <1>6. CASE Resume(g)     BY <1>6 DEF Resume
  <1>7. CASE Refuse(g)     BY <1>7 DEF Refuse
  <1>8. CASE GateRaises(g) BY <1>8 DEF GateRaises, Reached
  <1> QED  BY <1>1, <1>2, <1>3, <1>4, <1>5, <1>6, <1>7, <1>8 DEF Wait

\* ... elsewhere it completes the task only behind all of them, ...
LEMMA RunGrantInv ==
  ASSUME TypeOK, GrantInv,
         \/ Execute \/ Vanish
         \/ RenewTick \/ RenewerDies \/ Expire \/ Sweep \/ Cancel
  PROVE  GrantInv'
  <1> USE DEF TypeOK, GrantInv, OthersSame, WriteFailed
  <1>1. CASE Execute
    <2>1. CASE Fail       BY <2>1 DEF Fail
    <2>2. CASE FailRead   BY <2>2 DEF FailRead
    <2>3. CASE FailWrite  BY <2>3 DEF FailWrite
    <2>4. CASE Abort      BY <2>4 DEF Abort, Return
    <2>5. CASE Complete   BY <2>5 DEF Complete, Return
    <2> QED  BY <1>1, <2>1, <2>2, <2>3, <2>4, <2>5 DEF Execute
  <1>2. CASE Vanish      BY <1>2 DEF Vanish
  <1>3. CASE RenewerDies BY <1>3 DEF RenewerDies
  <1>4. CASE RenewTick   BY <1>4 DEF RenewTick
  <1>5. CASE Expire      BY <1>5 DEF Expire
  <1>6. CASE Sweep       BY <1>6 DEF Sweep, SweepRead, SweepWrite
  <1>7. CASE Cancel      BY <1>7 DEF Cancel, CancelRead, CancelWrite
  <1> QED  BY <1>1, <1>2, <1>3, <1>4, <1>5, <1>6, <1>7

\* ... and a handler that approves a step grants it.
LEMMA HandlerGrantInv ==
  ASSUME TypeOK, GrantInv, NEW h \in Handlers, Serve(h)
  PROVE  GrantInv'
  <1> USE DEF TypeOK, GrantInv, WriteFailed, End
  <1>1. CASE Check(h)   BY <1>1 DEF Check
  <1>2. ASSUME NEW g \in Gates, Pick(h, g) PROVE GrantInv'
    BY <1>2 DEF Pick
  <1>3. CASE Decide(h)  BY <1>3 DEF Decide
  <1>4. CASE Apply(h)   BY <1>4 DEF Apply
  <1>5. CASE GiveUp(h)  BY <1>5 DEF GiveUp
  <1> QED  BY <1>1, <1>2, <1>3, <1>4, <1>5 DEF Serve

\* GrantInv is inductive.
LEMMA NextGrantInv == TypeOK /\ GrantInv /\ [Next]_vars => GrantInv'
  <1>1. CASE GrantInv /\ UNCHANGED vars
    BY <1>1 DEF vars, GrantInv
  <1>2. CASE TypeOK /\ GrantInv /\ Next
    BY <1>2, GateGrantInv, RunGrantInv, HandlerGrantInv DEF Next
  <1> QED  BY <1>1, <1>2

\* Whatever times out, crashes, lapses or is decided twice, nobody passes a
\* gate that no administrator approved, and no task completes around one.
THEOREM ApprovalIsRequired == Spec => []NoWorkUnapproved
  <1>1. Init => TypeOK /\ GrantInv
    BY InitTypeOK DEF Init, GrantInv
  <1>2. TypeOK /\ GrantInv /\ [Next]_vars => TypeOK' /\ GrantInv'
    BY NextTypeOK, NextGrantInv
  <1>3. TypeOK /\ GrantInv => NoWorkUnapproved
    BY DEF TypeOK, GrantInv, NoWorkUnapproved
  <1> QED  BY <1>1, <1>2, <1>3, PTL DEF Spec

-----------------------------------------------------------------------------
(* One decision at a time                                                  *)

\* No two requests decide on the task at once.
OneAtATime == \A h, k \in Handlers : h = k

\* The strengthening: a picked step is undecided, an undecided one was never
\* granted, and what the executor has seen stays written on the step.
DecidedOnce ==
    /\ \A g \in Gates : step[g] \in {"none", "waiting"} => g \notin granted
    /\ \A h \in Handlers : request[h] = "picked" => picked[h] \notin granted
    /\ \A g \in Gates : gate[g] \in {"approved", "noted_approved", "passed"}
                            => step[g] = "approved"

\* The executor keeps it at the gates, ...
LEMMA GateDecidedOnce ==
  ASSUME TypeOK, GrantInv, DecidedOnce, NEW g \in Gates, Wait(g) \/ GateRaises(g)
  PROVE  DecidedOnce'
  <1> USE DEF TypeOK, GrantInv, DecidedOnce, Goto, OthersSame
  <1>1. CASE Open(g)       BY <1>1 DEF Open
  <1>2. CASE Suspend(g)    BY <1>2 DEF Suspend
  <1>3. CASE See(g)        BY <1>3 DEF See
  <1>4. CASE TimeOut(g)    BY <1>4 DEF TimeOut
  <1>5. CASE Note(g)       BY <1>5 DEF Note
  <1>6. CASE Resume(g)     BY <1>6 DEF Resume
  <1>7. CASE Refuse(g)     BY <1>7 DEF Refuse
  <1>8. CASE GateRaises(g) BY <1>8 DEF GateRaises
  <1> QED  BY <1>1, <1>2, <1>3, <1>4, <1>5, <1>6, <1>7, <1>8 DEF Wait

\* ... and elsewhere, where nothing it is about changes, ...
LEMMA RunDecidedOnce ==
  ASSUME DecidedOnce,
         \/ Execute \/ Vanish
         \/ RenewTick \/ RenewerDies \/ Expire \/ Sweep \/ Cancel
  PROVE  DecidedOnce'
  <1>1. UNCHANGED <<step, gate, granted, request, picked>>
    BY Zenon
       DEF OthersSame, Execute, Fail, FailRead, FailWrite, Abort, Complete,
           Vanish, RenewTick, RenewerDies, Expire, Sweep, SweepRead, SweepWrite,
           Cancel, CancelRead, CancelWrite
  <1> QED  BY <1>1 DEF DecidedOnce

\* ... and so does the only handler.
LEMMA HandlerDecidedOnce ==
  ASSUME OneAtATime, TypeOK, GrantInv, DecidedOnce, NEW h \in Handlers, Serve(h)
  PROVE  DecidedOnce'
  <1> USE DEF OneAtATime, TypeOK, GrantInv, DecidedOnce, End
  <1>1. CASE Check(h)   BY <1>1 DEF Check
  <1>2. ASSUME NEW g \in Gates, Pick(h, g) PROVE DecidedOnce'
    BY <1>2 DEF Pick, Latest
  <1>3. CASE Decide(h)  BY <1>3 DEF Decide
  <1>4. CASE Apply(h)   BY <1>4 DEF Apply
  <1>5. CASE GiveUp(h)  BY <1>5 DEF GiveUp
  <1> QED  BY <1>1, <1>2, <1>3, <1>4, <1>5 DEF Serve

\* If decisions are taken one at a time, a completed task has only approved
\* steps: a rejection that was recorded has stopped the task.
THEOREM OutcomeAgreesWithDecisions ==
  ASSUME OneAtATime
  PROVE  Spec => []CompletedIsApproved
  <1> DEFINE Inv == TypeOK /\ GrantInv /\ DecidedOnce
  <1>1. Init => Inv
    BY InitTypeOK DEF Init, GrantInv, DecidedOnce
  <1>2. ASSUME Inv, [Next]_vars PROVE Inv'
    <2>1. TypeOK' /\ GrantInv'
      BY <1>2, NextTypeOK, NextGrantInv
    <2>2. CASE UNCHANGED vars
      BY <1>2, <2>1, <2>2 DEF vars, DecidedOnce
    <2>3. CASE Next
      BY <1>2, <2>1, <2>3, OneAtATime, GateDecidedOnce, RunDecidedOnce, HandlerDecidedOnce
         DEF Next
    <2> QED  BY <1>2, <2>1, <2>2, <2>3
  <1>3. Inv => CompletedIsApproved
    BY DEF GrantInv, DecidedOnce, CompletedIsApproved
  <1> QED  BY <1>1, <1>2, <1>3, PTL DEF Spec

-----------------------------------------------------------------------------
(* A waiting step can be decided                                           *)

\* The workflow has one gate, and the task is not cancelled.
OneGate == (\A f, g \in Gates : f = g) /\ CanCancel = FALSE

\* The strengthening: what a handler has decided waits no more, and while the
\* executor polls on under a lease the task is suspended.
Suspended ==
    /\ \A h \in Handlers : request[h] = "decided" => step[picked[h]] # "waiting"
    /\ \A g \in Gates :
          gate[g] = "polling" /\ step[g] = "waiting" /\ lease # "none"
              => status = "waiting_approval"

\* Nothing is ever being cancelled.
LEMMA NextNotCancelling ==
  ASSUME OneGate, ~cancelling, Next
  PROVE  ~cancelling'
  <1> USE DEF OneGate, OthersSame
  <1>1. ASSUME NEW g \in Gates, Wait(g) \/ GateRaises(g) PROVE ~cancelling'
    BY <1>1, Zenon DEF Wait, Open, Suspend, See, TimeOut, Note, Resume, Refuse, GateRaises
  <1>2. CASE Execute \/ Vanish \/ RenewTick \/ RenewerDies \/ Expire \/ Sweep \/ Cancel
    BY <1>2, Zenon
       DEF Execute, Fail, FailRead, FailWrite, Abort, Complete, Vanish,
           RenewTick, RenewerDies, Expire, Sweep, SweepRead, SweepWrite,
           Cancel, CancelRead, CancelWrite
  <1>3. ASSUME NEW h \in Handlers, Serve(h) PROVE ~cancelling'
    BY <1>3, Zenon DEF Serve, Check, Pick, Decide, Apply, GiveUp
  <1> QED  BY <1>1, <1>2, <1>3, Zenon DEF Next

\* Every step of the system keeps the rest.
LEMMA NextSuspended ==
  ASSUME OneGate, TypeOK, ~cancelling, Suspended, Next
  PROVE  Suspended'
  <1> USE DEF TypeOK, Suspended
  <1>1. ASSUME NEW g \in Gates, Wait(g) \/ GateRaises(g) PROVE Suspended'
    <2> USE DEF Goto, OthersSame
    <2>0. \A f \in Gates : f = g
      BY DEF OneGate
    <2>1. CASE Open(g)       BY <2>1 DEF Open
    <2>2. CASE Suspend(g)    BY <2>2 DEF Suspend
    <2>3. CASE See(g)        BY <2>3 DEF See
    <2>4. CASE TimeOut(g)    BY <2>4 DEF TimeOut
    <2>5. CASE Note(g)       BY <2>5 DEF Note
    <2>6. CASE Resume(g)     BY <2>0, <2>6 DEF Resume
    <2>7. CASE Refuse(g)     BY <2>0, <2>7 DEF Refuse
    <2>8. CASE GateRaises(g) BY <2>8 DEF GateRaises
    <2> QED  BY <1>1, <2>1, <2>2, <2>3, <2>4, <2>5, <2>6, <2>7, <2>8 DEF Wait
  <1>2. CASE Execute \/ Vanish \/ RenewTick \/ RenewerDies \/ Expire \/ Sweep \/ Cancel
    <2>1. UNCHANGED <<step, gate, request, picked>>
      BY <1>2, Zenon
         DEF OthersSame, Execute, Fail, FailRead, FailWrite, Abort, Complete,
             Vanish, RenewTick, RenewerDies, Expire, Sweep, SweepRead, SweepWrite,
             Cancel, CancelRead, CancelWrite
    <2>2. lease' = "none" \/ (status' = status /\ (lease' # "none" => lease # "none"))
      <3>1. CASE Execute \/ Vanish
        BY <3>1, Zenon
           DEF WriteFailed, Execute, Fail, FailRead, FailWrite, Abort, Complete, Vanish
      <3>2. CASE RenewTick \/ RenewerDies
        BY <3>2, Zenon DEF RenewTick, RenewerDies
      <3>3. CASE Expire
        BY <3>3 DEF Expire
      <3>4. CASE Sweep \/ Cancel
        BY <3>4, Zenon
           DEF WriteFailed, Sweep, SweepRead, SweepWrite, Cancel, CancelRead, CancelWrite
      <3> QED  BY <1>2, <3>1, <3>2, <3>3, <3>4
    <2> QED  BY <2>1, <2>2
  <1>3. ASSUME NEW h \in Handlers, Serve(h) PROVE Suspended'
    <2> USE DEF End
    <2>1. CASE Check(h)   BY <2>1 DEF Check
    <2>2. ASSUME NEW g \in Gates, Pick(h, g) PROVE Suspended'
      BY <2>2 DEF Pick
    <2>3. CASE Decide(h)  BY <2>3 DEF Decide
    <2>4. CASE Apply(h)
      <3>1. \A g \in Gates : step[g] # "waiting"
        BY <2>4 DEF Apply, OneGate
      <3> QED  BY <2>4, <3>1 DEF Apply
    <2>5. CASE GiveUp(h)  BY <2>5 DEF GiveUp
    <2> QED  BY <1>3, <2>1, <2>2, <2>3, <2>4, <2>5 DEF Serve
  <1> QED  BY <1>1, <1>2, <1>3 DEF Next

\* The only gate of a task that is not cancelled stays open to a decision as
\* long as its step waits and the lease has not been swept.
THEOREM SoleGateIsDecidable ==
  ASSUME OneGate
  PROVE  Spec => []WaitingStepIsDecidable
  <1> DEFINE Inv == TypeOK /\ ~cancelling /\ Suspended
  <1>1. Init => Inv
    <2>1. Init => ~cancelling
      BY Zenon DEF Init
    <2>2. Init => Suspended
      BY DEF Init, Suspended
    <2> QED  BY <2>1, <2>2, InitTypeOK
  <1>2. ASSUME Inv, [Next]_vars PROVE Inv'
    <2>1. TypeOK'
      BY <1>2, NextTypeOK
    <2>2. CASE UNCHANGED vars
      <3>1. ~cancelling'
        BY <1>2, <2>2, Zenon DEF vars
      <3> QED  BY <1>2, <2>1, <2>2, <3>1 DEF vars, Suspended
    <2>3. CASE Next
      <3>1. ~cancelling'
        BY <1>2, <2>3, OneGate, NextNotCancelling
      <3> QED  BY <1>2, <2>1, <2>3, <3>1, OneGate, NextSuspended
    <2> QED  BY <1>2, <2>1, <2>2, <2>3
  <1>3. Inv => WaitingStepIsDecidable
    BY DEF Suspended, WaitingStepIsDecidable
  <1> QED  BY <1>1, <1>2, <1>3, PTL DEF Spec
=============================================================================
