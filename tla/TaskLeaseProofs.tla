--------------------------- MODULE TaskLeaseProofs ---------------------------
(***************************************************************************)
(* The safety properties of TaskLease for any number of executors, workers *)
(* and handlers, whether or not a process can stall.                       *)
(***************************************************************************)
EXTENDS TaskLease, TLAPS

Sessions == Sweepers \cup Requests

\* The helpers every action is written with.
USE DEF Executors, Sessions, Goto, StopRenewer, Finish

-----------------------------------------------------------------------------
(* Types                                                                   *)

\* Every phase an action sends an executor to is a phase.
LEMMA InitTypeOK == Init => TypeOK
  BY ExecutorsAssumption DEF Init, TypeOK, Status, Phase

\* The executors' own steps keep the types and the agreement of the columns.
LEMMA ExecutorTypeOK ==
  ASSUME TypeOK, NEW e \in Executors,
         Begin(e) \/ Proceed(e) \/ Mishap(e) \/ RenewTick(e)
  PROVE  TypeOK'
  <1> USE ExecutorsAssumption
      DEF TypeOK, row, Phase, OrchWorking, DagWorking, Working, Claiming, Ended,
          Status, WriteTerminal, WriteTerminalBare, ReleaseTaskLease
  <1>1. CASE Claim(e)          BY <1>1 DEF Claim, FirstPhase
  <1>2. CASE ClaimMiss(e)      BY <1>2 DEF ClaimMiss
  <1>3. CASE DagStart(e)       BY <1>3 DEF DagStart
  <1>4. CASE ReadAfterMiss(e)  BY <1>4 DEF ReadAfterMiss, NotRunnable
  <1>5. CASE ResetExpired(e)   BY <1>5 DEF ResetExpired
  <1>6. CASE GuardedWrite(e)   BY <1>6 DEF GuardedWrite, Guarded, After
  <1>7. CASE GuardRaises(e)    BY <1>7 DEF GuardRaises
  <1>8. CASE ModelAnswers(e)   BY <1>8 DEF ModelAnswers
  <1>9. CASE Complete(e)       BY <1>9 DEF Complete
  <1>10. CASE MarkFailed(e)    BY <1>10 DEF MarkFailed
  <1>11. CASE FallbackFailed(e) BY <1>11 DEF FallbackFailed
  <1>12. CASE DagComplete(e)   BY <1>12 DEF DagComplete
  <1>13. CASE DagFailRead(e)   BY <1>13 DEF DagFailRead
  <1>14. CASE DagFailWrite(e)  BY <1>14 DEF DagFailWrite
  <1>15. CASE Raise(e)         BY <1>15 DEF Raise
  <1>16. CASE DagRaise(e)      BY <1>16 DEF DagRaise
  <1>17. CASE Vanish(e)        BY <1>17 DEF Vanish
  <1>18. CASE RenewerDies(e)   BY <1>18 DEF RenewerDies
  <1>19. CASE RenewTick(e)     BY <1>19 DEF RenewTick, Active
  <1> QED  BY <1>1, <1>2, <1>3, <1>4, <1>5, <1>6, <1>7, <1>8, <1>9, <1>10,
              <1>11, <1>12, <1>13, <1>14, <1>15, <1>16, <1>17, <1>18, <1>19
           DEF Begin, Proceed, Mishap

\* And so do sweeps and handlers.
LEMMA SessionTypeOK ==
  ASSUME TypeOK, NEW s \in Sessions, Sweep(s) \/ Handle(s)
  PROVE  TypeOK'
  <1> USE DEF TypeOK, row, Status, WriteTerminal, WriteTerminalBare, ReleaseTaskLease
  <1>1. ASSUME NEW what \in {"sweep", "cancel", "resume", "recover"},
               Read(s, what)
        PROVE  TypeOK'
    BY <1>1 DEF Read
  <1>2. CASE SweepWrite(s)   BY <1>2 DEF SweepWrite
  <1>3. CASE CancelWrite(s)  BY <1>3 DEF CancelWrite
  <1>4. CASE ResumeWrite(s)  BY <1>4 DEF ResumeWrite
  <1>5. CASE RecoverWrite(s) BY <1>5 DEF RecoverWrite
  <1>6. CASE Abandon(s)      BY <1>6 DEF Abandon
  <1> QED  BY <1>1, <1>2, <1>3, <1>4, <1>5, <1>6 DEF Sweep, Handle

LEMMA NextTypeOK == TypeOK /\ [Next]_vars => TypeOK'
  <1> SUFFICES ASSUME TypeOK, [Next]_vars PROVE TypeOK'
    OBVIOUS
  <1>1. CASE \E e \in Executors :
               Begin(e) \/ Proceed(e) \/ Mishap(e) \/ RenewTick(e)
    BY <1>1, ExecutorTypeOK
  <1>2. CASE Expire
    BY <1>2 DEF Expire, TypeOK
  <1>3. CASE \E s \in Sweepers : Sweep(s)
    BY <1>3, SessionTypeOK
  <1>4. CASE \E s \in Requests : Handle(s)
    BY <1>4, SessionTypeOK
  <1>5. CASE UNCHANGED vars
    BY <1>5 DEF vars, TypeOK
  <1> QED  BY <1>1, <1>2, <1>3, <1>4, <1>5 DEF Next

\* In every reachable state the variables have their types and the two lease
\* columns are set or NULL together (release_task_lease, claim_task_lease).
THEOREM TypeCorrect == Spec => []TypeOK
  BY InitTypeOK, NextTypeOK, PTL DEF Spec

-----------------------------------------------------------------------------
(* The inductive invariant                                                 *)

LEMMA InitIInv == Init => IInv
  BY InitTypeOK, ExecutorsAssumption
     DEF Init, IInv, ActiveRowHasLease, SettledHoldsNothing, LostMeansLost,
         RenewerFollowsClaim, ReturnedExecutorHoldsNothing, WorkedRowIsTaken,
         SoleOrchestrator, Active, Holds, OrchWorking, BeforeClaim, Claiming

\* An executor's step changes its own phase only; it makes the row active by
\* claiming it, and stops working on it after a write that settles the row or
\* after a renewal has missed.
LEMMA ExecutorIInv ==
  ASSUME IInv, TypeOK', NEW e \in Executors,
         Begin(e) \/ Proceed(e) \/ Mishap(e) \/ RenewTick(e)
  PROVE  IInv'
  <1> USE ExecutorsAssumption
      DEF IInv, TypeOK, ActiveRowHasLease, SettledHoldsNothing, LostMeansLost,
          RenewerFollowsClaim, ReturnedExecutorHoldsNothing, WorkedRowIsTaken,
          SoleOrchestrator, Active, Holds, OrchWorking, DagWorking, Working,
          BeforeClaim, Claiming, row,
          WriteTerminal, WriteTerminalBare, ReleaseTaskLease
  <1>1. CASE Claim(e)          BY <1>1 DEF Claim, FirstPhase, MayClaim
  <1>2. CASE ClaimMiss(e)      BY <1>2 DEF ClaimMiss, MayClaim
  <1>3. CASE DagStart(e)       BY <1>3 DEF DagStart
  <1>4. CASE ReadAfterMiss(e)  BY <1>4 DEF ReadAfterMiss, NotRunnable
  <1>5. CASE ResetExpired(e)   BY <1>5 DEF ResetExpired
  <1>6. CASE GuardedWrite(e)   BY <1>6 DEF GuardedWrite, Guarded, After
  <1>7. CASE GuardRaises(e)    BY <1>7 DEF GuardRaises, Guarded
  <1>8. CASE ModelAnswers(e)   BY <1>8 DEF ModelAnswers
  <1>9. CASE Complete(e)       BY <1>9 DEF Complete
  <1>10. CASE MarkFailed(e)    BY <1>10 DEF MarkFailed
  <1>11. CASE FallbackFailed(e) BY <1>11 DEF FallbackFailed
  <1>12. CASE DagComplete(e)   BY <1>12 DEF DagComplete
  <1>13. CASE DagFailRead(e)   BY <1>13 DEF DagFailRead
  <1>14. CASE DagFailWrite(e)  BY <1>14 DEF DagFailWrite
  <1>15. CASE Raise(e)         BY <1>15 DEF Raise
  <1>16. CASE DagRaise(e)      BY <1>16 DEF DagRaise
  <1>17. CASE Vanish(e)        BY <1>17 DEF Vanish
  <1>18. CASE RenewerDies(e)   BY <1>18 DEF RenewerDies
  <1>19. CASE RenewTick(e)     BY <1>19 DEF RenewTick
  <1> QED  BY <1>1, <1>2, <1>3, <1>4, <1>5, <1>6, <1>7, <1>8, <1>9, <1>10,
              <1>11, <1>12, <1>13, <1>14, <1>15, <1>16, <1>17, <1>18, <1>19
           DEF Begin, Proceed, Mishap

\* Sweeps and handlers never make a row active, and reopen it only on record.
LEMMA SessionIInv ==
  ASSUME IInv, TypeOK', NEW s \in Sessions, Sweep(s) \/ Handle(s)
  PROVE  IInv'
  <1> USE DEF IInv, TypeOK, ActiveRowHasLease, SettledHoldsNothing, LostMeansLost,
          RenewerFollowsClaim, ReturnedExecutorHoldsNothing, WorkedRowIsTaken,
          SoleOrchestrator, Active, Holds, row,
          WriteTerminal, WriteTerminalBare, ReleaseTaskLease
  <1>1. ASSUME NEW what \in {"sweep", "cancel", "resume", "recover"},
               Read(s, what)
        PROVE  IInv'
    BY <1>1 DEF Read
  <1>2. CASE SweepWrite(s)   BY <1>2 DEF SweepWrite
  <1>3. CASE CancelWrite(s)  BY <1>3 DEF CancelWrite
  <1>4. CASE ResumeWrite(s)  BY <1>4 DEF ResumeWrite
  <1>5. CASE RecoverWrite(s) BY <1>5 DEF RecoverWrite
  <1>6. CASE Abandon(s)      BY <1>6 DEF Abandon
  <1> QED  BY <1>1, <1>2, <1>3, <1>4, <1>5, <1>6 DEF Sweep, Handle

LEMMA NextIInv == IInv /\ [Next]_vars => IInv'
  <1> SUFFICES ASSUME IInv, [Next]_vars PROVE IInv'
    OBVIOUS
  <1>1. TypeOK'
    BY NextTypeOK DEF IInv
  <1>2. CASE \E e \in Executors :
               Begin(e) \/ Proceed(e) \/ Mishap(e) \/ RenewTick(e)
    BY <1>1, <1>2, ExecutorIInv
  <1>3. CASE \E s \in Sweepers : Sweep(s)
    BY <1>1, <1>3, SessionIInv
  <1>4. CASE \E s \in Requests : Handle(s)
    BY <1>1, <1>4, SessionIInv
  <1>5. CASE Expire \/ UNCHANGED vars
    BY <1>1, <1>5
       DEF Expire, vars, IInv, TypeOK, ActiveRowHasLease, SettledHoldsNothing,
           LostMeansLost, RenewerFollowsClaim, ReturnedExecutorHoldsNothing,
           WorkedRowIsTaken, SoleOrchestrator, Active, Holds
  <1> QED  BY <1>2, <1>3, <1>4, <1>5 DEF Next

THEOREM Invariance == Spec => []IInv
  BY InitIInv, NextIInv, PTL DEF Spec

-----------------------------------------------------------------------------
(* The properties                                                          *)

\* Every active row can be found by the sweep: claim, reset, sweep, startup
\* recovery and update_task_status never leave one without a lease.
THEOREM ActiveRowsAreSweepable == Spec => []ActiveRowHasLease
  <1>1. IInv => ActiveRowHasLease
    BY DEF IInv
  <1> QED  BY <1>1, Invariance, PTL

\* No return path of run_task or run_workflow_dag leaves its own lease on an
\* active row.
THEOREM NoLeaseIsLeftBehind == Spec => []ReturnedExecutorHoldsNothing
  <1>1. IInv => ReturnedExecutorHoldsNothing
    BY DEF IInv
  <1> QED  BY <1>1, Invariance, PTL

\* renew_task_lease sets cancel_event only when the row is really gone.
THEOREM LossIsReal == Spec => []LostMeansLost
  <1>1. IInv => LostMeansLost
    BY DEF IInv
  <1> QED  BY <1>1, Invariance, PTL

\* The compare-and-set of claim_task_lease is exclusive as long as nothing
\* puts a claimed row back to PENDING.
THEOREM ClaimIsExclusive == Spec => []SoleOrchestrator
  <1>1. IInv => SoleOrchestrator
    BY DEF IInv
  <1> QED  BY <1>1, Invariance, PTL

\* No write of a stale row brings back a token that was cleared or replaced.
THEOREM LostLeaseIsFinal == Spec => LostLeaseStaysLost
  <1>1. IInv /\ [Next]_vars =>
          [\A e \in Executors :
              pc[e] \in Working \cup Ended /\ token # e => token' # e]_vars
    <2> SUFFICES ASSUME TypeOK, [Next]_vars, NEW e \in Executors,
                        pc[e] \in Working \cup Ended, token # e
                 PROVE  token' # e
      BY DEF IInv
    <2>1. CASE Claim(e)
      BY <2>1 DEF Claim, MayClaim, Working, Ended, OrchWorking, DagWorking
    <2>2. ASSUME NEW f \in Executors,
                 Begin(f) \/ Proceed(f) \/ Mishap(f) \/ RenewTick(f)
          PROVE  token' # e
      BY <2>1, <2>2, ExecutorsAssumption
         DEF TypeOK, row,
          WriteTerminal, WriteTerminalBare, ReleaseTaskLease,
             Begin, Proceed, Mishap, Claim, ClaimMiss, DagStart, ReadAfterMiss,
             ResetExpired, GuardedWrite, GuardRaises, ModelAnswers, Complete,
             MarkFailed, FallbackFailed, DagComplete, DagFailRead, DagFailWrite,
             Raise, DagRaise, Vanish, RenewerDies, RenewTick
    <2>3. ASSUME NEW s \in Sessions, Sweep(s) \/ Handle(s)
          PROVE  token' # e
      BY <2>3, ExecutorsAssumption
         DEF row,
          WriteTerminal, WriteTerminalBare, ReleaseTaskLease, Sweep, Handle, Read,
             SweepWrite, CancelWrite, ResumeWrite, RecoverWrite, Abandon
    <2> QED  BY <2>2, <2>3 DEF Next, Expire, vars
  <1> QED  BY <1>1, Invariance, PTL DEF Spec, LostLeaseStaysLost
=============================================================================
