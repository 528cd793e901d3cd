----------------------------- MODULE DagRunProofs -----------------------------
(***************************************************************************)
(* Proofs about DagRun, for every set of templates over any finite set of  *)
(* nodes.                                                                  *)
(***************************************************************************)
EXTENDS DagRun, FiniteSetTheorems, TLAPS

USE DEF row

-----------------------------------------------------------------------------
(* Types                                                                   *)

\* Dependencies are finitely many, so that they can be counted.
LEMMA DependenciesAreFinite ==
  ASSUME TypeOK, NEW n \in Nodes, NEW S \in SUBSET deps[n]
  PROVE  IsFiniteSet(S) /\ Cardinality(S) \in Nat
  <1>1. IsFiniteSet(Nodes \cup {Unknown})
    BY DagAssumption, FS_AddElement
  <1>2. S \in SUBSET (Nodes \cup {Unknown})
    BY DagAssumption DEF TypeOK
  <1> QED  BY <1>1, <1>2, FS_Subset, FS_CardinalityType

LEMMA InitTypeOK == Init => TypeOK
  <1> SUFFICES ASSUME Init PROVE TypeOK
    OBVIOUS
  <1>1. \A n \in Nodes : Cardinality(deps[n]) \in Nat
    <2> TAKE n \in Nodes
    <2>1. deps[n] \in SUBSET (Nodes \cup {Unknown})
      BY DagAssumption DEF Init
    <2>2. IsFiniteSet(Nodes \cup {Unknown})
      BY DagAssumption, FS_AddElement
    <2> QED  BY <2>1, <2>2, FS_Subset, FS_CardinalityType
  <1> QED
    BY <1>1, DagAssumption
    DEF Init, TypeOK, Engine, TaskStatus, RunStatus, Tokens

LEMMA SortTypeOK ==
  ASSUME TypeOK, Refuse \/ PlaceLayer \/ Accept
  PROVE  TypeOK'
  <1> USE DEF TypeOK, Engine, TaskStatus, RunStatus, Tokens, nodes, others
  <1>1. CASE Refuse  BY <1>1 DEF Refuse
  <1>2. CASE Accept  BY <1>2 DEF Accept
  <1>3. CASE PlaceLayer
    <2>1. \A n \in Nodes : Cardinality(deps[n] \cap current) \in Nat
      BY DependenciesAreFinite
    <2>2. indegree' \in [Nodes -> Int]
      BY <1>3, <2>1 DEF PlaceLayer
    <2>3. current' \subseteq Nodes /\ layers' \in Nat /\ layer' \in [Nodes -> Nat]
      BY <1>3 DEF PlaceLayer
    <2>4. UNCHANGED <<deps, sort, engine, nodes, row, renewing, run, seen, others,
                      faults>>
      BY <1>3 DEF PlaceLayer
    <2> QED  BY <2>2, <2>3, <2>4
  <1> QED  BY <1>1, <1>2, <1>3

LEMMA EngineTypeOK ==
  ASSUME TypeOK,
         \/ CreateTask \/ CreateRun \/ Begin \/ ClaimRefused \/ Layers \/ Settle
         \/ \E n \in Nodes : Work(n)
         \/ WriteBreaks \/ Crash
  PROVE  TypeOK'
  <1> USE DagAssumption
      DEF TypeOK, Engine, TaskStatus, RunStatus, Tokens, sorting, nodes, others,
          StartLayer
  <1>1. CASE CreateTask    BY <1>1 DEF CreateTask
  <1>2. CASE CreateRun     BY <1>2 DEF CreateRun
  <1>3. CASE Begin         BY <1>3 DEF Begin
  <1>4. CASE ClaimRefused  BY <1>4 DEF ClaimRefused
  <1>5. CASE NextLayer     BY <1>5 DEF NextLayer
  <1>6. CASE LayerFailed   BY <1>6 DEF LayerFailed
  <1>7. CASE CompleteTask  BY <1>7 DEF CompleteTask
  <1>8. CASE CompleteRun   BY <1>8 DEF CompleteRun
  <1>9. CASE FailTask      BY <1>9 DEF FailTask
  <1>10. CASE FailRun      BY <1>10 DEF FailRun
  <1>11. ASSUME NEW n \in Nodes, Work(n) PROVE TypeOK'
    BY <1>11 DEF Work, NodeSucceeds, NodeErrs, RecordFailure, NodeRaises
  <1>12. CASE WriteBreaks  BY <1>12 DEF WriteBreaks
  <1>13. CASE Crash        BY <1>13 DEF Crash
  <1> QED
    BY <1>1, <1>2, <1>3, <1>4, <1>5, <1>6, <1>7, <1>8, <1>9, <1>10, <1>11, <1>12,
       <1>13 DEF Layers, Settle

LEMMA OtherTypeOK ==
  ASSUME TypeOK,
         \/ RenewerDies \/ Expire \/ Sweep
         \/ Cancel \/ Resume \/ Recover \/ PlainClaim \/ PlainEnds
  PROVE  TypeOK'
  <1> USE DagAssumption
      DEF TypeOK, Engine, TaskStatus, RunStatus, Tokens, sorting, nodes, others
  <1>1. CASE RenewerDies  BY <1>1 DEF RenewerDies
  <1>2. CASE Expire       BY <1>2 DEF Expire
  <1>3. CASE SweepRead    BY <1>3 DEF SweepRead
  <1>4. CASE SweepWrite   BY <1>4 DEF SweepWrite
  <1>5. CASE Cancel       BY <1>5 DEF Cancel, CancelRead, CancelWrite
  <1>6. CASE Resume       BY <1>6 DEF Resume
  <1>7. CASE Recover      BY <1>7 DEF Recover
  <1>8. CASE PlainClaim   BY <1>8 DEF PlainClaim
  <1>9. CASE PlainEnds    BY <1>9 DEF PlainEnds
  <1> QED
    BY <1>1, <1>2, <1>3, <1>4, <1>5, <1>6, <1>7, <1>8, <1>9 DEF Sweep

LEMMA NextTypeOK == TypeOK /\ [Next]_vars => TypeOK'
  <1> SUFFICES ASSUME TypeOK, [Next]_vars PROVE TypeOK'
    OBVIOUS
  <1>1. CASE Next
    BY <1>1, SortTypeOK, EngineTypeOK, OtherTypeOK DEF Next, Proceed, Sort
  <1>2. CASE UNCHANGED vars
    BY <1>2 DEF TypeOK, vars, sorting, nodes, others
  <1> QED  BY <1>1, <1>2

\* Every variable keeps its type, and token and expiry are written together.
THEOREM TypeCorrect == Spec => []TypeOK
  BY InitTypeOK, NextTypeOK, PTL DEF Spec

-----------------------------------------------------------------------------
(* The sort                                                                *)

\* What is left to count after a layer has been taken off.
LEMMA CountersCount ==
  ASSUME TypeOK, SortInv, PlaceLayer, NEW n \in Nodes
  PROVE  /\ Placed' = Placed \cup current
         /\ indegree'[n] = Cardinality(deps[n] \ Placed')
         /\ indegree'[n] = 0 <=> deps[n] \subseteq Placed'
  <1>1. /\ current = {k \in Nodes : layer[k] = 0 /\ deps[k] \subseteq Placed}
        /\ indegree[n] = Cardinality(deps[n] \ Placed)
    BY DEF PlaceLayer, SortInv
  <1>2. /\ layer' = [k \in Nodes |-> IF k \in current THEN layers + 1 ELSE layer[k]]
        /\ indegree'[n] = indegree[n] - Cardinality(deps[n] \cap current)
        /\ deps' = deps
    BY DEF PlaceLayer
  <1>3. Placed' = Placed \cup current
    BY <1>1, <1>2 DEF Placed, TypeOK
  <1>4. (deps[n] \ Placed) \cap current = deps[n] \cap current
    BY <1>1 DEF Placed
  <1>5. (deps[n] \ Placed) \ current = deps[n] \ Placed'
    BY <1>3
  <1>6. IsFiniteSet(deps[n] \ Placed)
    BY DependenciesAreFinite
  <1>7. indegree'[n] = Cardinality(deps[n] \ Placed')
    BY <1>1, <1>2, <1>4, <1>5, <1>6, FS_Difference
  <1>8. IsFiniteSet(deps[n] \ Placed')
    BY DependenciesAreFinite
  <1> QED  BY <1>3, <1>7, <1>8, FS_EmptySet

LEMMA PlaceLayerSorts ==
  ASSUME TypeOK, SortInv, PlaceLayer
  PROVE  SortInv'
  <1> DEFINE free == {n \in Nodes : layer[n] = 0 /\ deps[n] \subseteq Placed}
  <1>1. /\ sort = "open" /\ current # {} /\ \A n \in Nodes : Unknown \notin deps[n]
        /\ layers' = layers + 1
        /\ layer' = [n \in Nodes |-> IF n \in current THEN layers + 1 ELSE layer[n]]
        /\ current' = {n \in Nodes : deps[n] \cap current # {} /\ indegree'[n] = 0}
        /\ UNCHANGED <<deps, sort, engine>>
    BY DEF PlaceLayer
  <1>2. current = free
    BY <1>1 DEF SortInv
  <1>3. Placed' = Placed \cup current /\ Placed \cap current = {}
    BY <1>2, CountersCount DEF Placed
  <1>4. \A n \in Nodes : deps[n] \subseteq Nodes
    BY <1>1, DagAssumption DEF TypeOK
  <1>5. layers \in Nat /\ layer \in [Nodes -> Nat]
    BY DEF TypeOK
  <1>6. \A n \in Nodes : layer'[n] <= layers'
    BY <1>1, <1>5 DEF SortInv
  <1>7. ASSUME NEW n \in Placed', NEW m \in deps'[n]
        PROVE  m \in Placed' /\ layer'[m] < layer'[n]
    <2>1. m \in Placed
      BY <1>1, <1>2, <1>3, <1>7 DEF SortInv
    <2>2. layer'[m] = layer[m] /\ layer[m] <= layers
      BY <2>1, <1>1, <1>3 DEF SortInv, Placed
    <2>3. CASE n \in current
      BY <2>1, <2>2, <2>3, <1>1, <1>2, <1>3, <1>5 DEF Placed
    <2>4. CASE n \in Placed
      BY <2>1, <2>2, <2>4, <1>1, <1>3 DEF SortInv, Placed
    <2> QED  BY <2>3, <2>4, <1>3
  <1>8. current' = {n \in Nodes : layer'[n] = 0 /\ deps'[n] \subseteq Placed'}
    <2>1. ASSUME NEW n \in Nodes
          PROVE  deps[n] \cap current # {} /\ deps[n] \subseteq Placed'
                   <=> layer'[n] = 0 /\ deps[n] \subseteq Placed'
      <3>1. layer'[n] = 0 <=> n \notin Placed'
        BY DEF Placed
      <3>2. CASE n \in Placed
        BY <3>1, <3>2, <1>1, <1>3 DEF SortInv
      <3>3. CASE n \in current
        BY <3>1, <3>3, <1>2, <1>3
      <3>4. CASE n \notin Placed \cup current
        BY <3>1, <3>4, <1>2, <1>3 DEF Placed
      <3> QED  BY <3>2, <3>3, <3>4
    <2>2. \A n \in Nodes : indegree'[n] = 0 <=> deps[n] \subseteq Placed'
      BY CountersCount
    <2> QED  BY <2>1, <2>2, <1>1
  <1>9. \A n \in Nodes : indegree'[n] = Cardinality(deps'[n] \ Placed')
    BY <1>1, CountersCount
  <1>10. ASSUME NEW n \in current'
         PROVE  \E m \in deps'[n] : layer'[m] = layers'
    BY <1>1, <1>2, <1>10
  <1>11. LayersAreTight'
    <2> SUFFICES ASSUME NEW n \in Nodes, layer'[n] > 1
                 PROVE  \E m \in deps[n] : layer'[m] = layer'[n] - 1
      BY <1>1 DEF LayersAreTight
    <2>1. CASE n \in current
      <3>1. layers > 0 /\ layer'[n] - 1 = layers
        BY <2>1, <1>1, <1>5
      <3>2. PICK m \in deps[n] : layer[m] = layers
        BY <2>1, <3>1, <1>1 DEF SortInv
      <3>3. m \in Placed
        BY <2>1, <3>2, <1>2
      <3> QED  BY <3>1, <3>2, <3>3, <1>1, <1>3 DEF Placed
    <2>2. CASE n \notin current
      <3>1. layer'[n] = layer[n] /\ n \in Placed
        BY <2>2, <1>1, <1>5 DEF Placed
      <3>2. PICK m \in deps[n] : layer[m] = layer[n] - 1
        BY <3>1 DEF SortInv, LayersAreTight
      <3>3. m \in Placed
        BY <3>1, <3>2 DEF SortInv
      <3> QED  BY <3>1, <3>2, <3>3, <1>1, <1>3 DEF Placed
    <2> QED  BY <2>1, <2>2
  <1>12. RefusedIsUnsortable' /\ ~(sort' = "sorted") /\ engine' = "sorting"
    BY <1>1 DEF RefusedIsUnsortable, SortInv
  <1> QED
    BY <1>6, <1>7, <1>8, <1>9, <1>10, <1>11, <1>12 DEF SortInv

\* A refusal is right: what could not be placed waits for itself.
LEMMA RefuseSorts ==
  ASSUME TypeOK, SortInv, Refuse
  PROVE  SortInv'
  <1>1. sort' = "refused" /\ UNCHANGED <<deps, indegree, current, layers, layer>>
    BY DEF Refuse
  <1>2. Placed' = Placed /\ LayersAreTight'
    BY <1>1 DEF Placed, SortInv, LayersAreTight
  <1>3. RefusedIsUnsortable'
    <2>1. CASE \E n \in Nodes : Unknown \in deps[n]
      BY <2>1, <1>1 DEF RefusedIsUnsortable
    <2>2. CASE \A n \in Nodes : Unknown \notin deps[n]
      <3> DEFINE S == Nodes \ Placed
      <3>1. current = {} /\ S # {}
        BY <2>2 DEF Refuse, Placed
      <3>2. \A n \in Nodes : deps[n] \subseteq Nodes
        BY <2>2, DagAssumption DEF TypeOK
      <3>3. \A n \in S : deps[n] \cap S # {}
        BY <3>1, <3>2, <2>2 DEF SortInv, Placed
      <3> QED  BY <3>1, <3>3, <1>1 DEF RefusedIsUnsortable
    <2> QED  BY <2>1, <2>2
  <1> QED  BY <1>1, <1>2, <1>3 DEF SortInv

LEMMA AcceptSorts ==
  ASSUME SortInv, Accept
  PROVE  SortInv'
  <1>1. sort' = "sorted" /\ UNCHANGED <<deps, indegree, current, layers, layer>>
    BY DEF Accept
  <1>2. Placed' = Placed /\ Placed = Nodes
    BY <1>1 DEF Accept, Placed
  <1> QED
    BY <1>1, <1>2 DEF SortInv, LayersAreTight, RefusedIsUnsortable

\* Nothing else touches the sort, nor goes back to it.
LEMMA OthersDoNotSort ==
  ASSUME [Next]_vars
  PROVE  \/ Refuse \/ PlaceLayer \/ Accept
         \/ UNCHANGED sorting /\ (engine = "sorting" <=> engine' = "sorting")
  <1> USE DEF sorting
  <1>1. CASE CreateTask \/ CreateRun \/ Begin \/ ClaimRefused
    BY <1>1 DEF CreateTask, CreateRun, Begin, ClaimRefused
  <1>2. CASE Layers \/ Settle
    BY <1>2 DEF Layers, NextLayer, LayerFailed, Settle, CompleteTask, CompleteRun,
                FailTask, FailRun
  <1>3. ASSUME NEW n \in Nodes, Work(n) PROVE UNCHANGED <<sorting, engine>>
    BY <1>3 DEF Work, NodeSucceeds, NodeErrs, RecordFailure, NodeRaises
  <1>4. CASE WriteBreaks \/ Crash \/ RenewerDies \/ Expire \/ Sweep
    BY <1>4 DEF WriteBreaks, Crash, Alive, RenewerDies, Expire, Sweep, SweepRead,
                SweepWrite
  <1>5. CASE Cancel \/ Resume \/ Recover \/ PlainClaim \/ PlainEnds
    BY <1>5 DEF Cancel, CancelRead, CancelWrite, Resume, Recover, PlainClaim, PlainEnds
  <1>6. CASE UNCHANGED vars
    BY <1>6 DEF vars
  <1> QED
    BY <1>1, <1>2, <1>3, <1>4, <1>5, <1>6 DEF Next, Proceed, Sort

LEMMA NextSorts == TypeOK /\ SortInv /\ [Next]_vars => SortInv'
  <1> SUFFICES ASSUME TypeOK, SortInv, [Next]_vars PROVE SortInv'
    OBVIOUS
  <1>1. CASE UNCHANGED sorting /\ (engine = "sorting" <=> engine' = "sorting")
    BY <1>1 DEF SortInv, sorting, Placed, LayersAreTight, RefusedIsUnsortable
  <1> QED
    BY <1>1, OthersDoNotSort, RefuseSorts, PlaceLayerSorts, AcceptSorts

LEMMA InitSorts == Init => SortInv
  <1> SUFFICES ASSUME Init PROVE SortInv
    OBVIOUS
  <1>1. Placed = {}
    BY DEF Init, Placed
  <1>2. \A n \in Nodes : deps[n] \ Placed = deps[n]
    BY <1>1
  <1> QED
    BY <1>1, <1>2 DEF Init, SortInv, LayersAreTight, RefusedIsUnsortable

-----------------------------------------------------------------------------
(* The engine                                                              *)

\* One step of the sort happens before the engine starts.
LEMMA SortKeepsEngine ==
  ASSUME TypeOK, SortInv, SortInv', EngineInv, Refuse \/ PlaceLayer \/ Accept
  PROVE  EngineInv'
  <1>1. engine = "sorting" /\ UNCHANGED nodes
    BY DEF Refuse, PlaceLayer, Accept, SortInv
  <1>2. at = 0 /\ \A n \in Nodes : node[n] = "idle"
    BY <1>1 DEF EngineInv, TypeOK
  <1>3. /\ engine' \in {"sorting", "done", "create"}
        /\ engine' = "create" => sort' = "sorted"
    BY <1>1 DEF Refuse, PlaceLayer, Accept
  <1>4. layer' \in [Nodes -> Nat]
    BY SortTypeOK DEF TypeOK
  <1> QED
    BY <1>1, <1>2, <1>3, <1>4 DEF nodes, EngineInv, Ran, Placed

\* A layer starts when all nodes before it have succeeded.
LEMMA LayersKeepEngine ==
  ASSUME TypeOK, SortInv, EngineInv, Begin \/ NextLayer
  PROVE  EngineInv'
  <1> USE DEF TypeOK
  <1>1. /\ sort = "sorted" /\ UNCHANGED <<sort, layer>>
        /\ Placed = Nodes /\ Placed' = Nodes
        /\ \A n \in Nodes : layer[n] \in 1..layers
    BY DEF Begin, NextLayer, EngineInv, SortInv, sorting, Placed
  <1>2. ASSUME NEW k \in Nat \ {0}, StartLayer(k), engine' = "going",
               \A n \in Nodes : node[n] # "idle" => layer[n] < k,
               \A n \in Nodes : layer[n] < k => node[n] = "ok"
        PROVE  EngineInv'
    <2>1. at' = k /\ step' = step
          /\ node' = [n \in Nodes |-> IF layer[n] = k THEN "working" ELSE node[n]]
      BY <1>2 DEF StartLayer
    <2>2. \A n \in Nodes : node'[n] # "idle" => layer'[n] \in 1..at'
      BY <1>1, <1>2, <2>1
    <2>3. \A n \in Nodes : layer'[n] < at' => node'[n] = "ok"
      BY <1>1, <1>2, <2>1
    <2>4. \A n \in Nodes : node'[n] = "ok" => step'[n] = "completed"
      BY <2>1 DEF EngineInv
    <2>5. \A n \in Nodes : step'[n] = "completed" => node'[n] \in {"ok", "raised"}
      BY <1>2, <2>1 DEF EngineInv
    <2> QED
      BY <1>1, <1>2, <2>2, <2>3, <2>4, <2>5 DEF EngineInv
  <1>3. CASE Begin
    BY <1>1, <1>2, <1>3 DEF Begin, EngineInv
  <1>4. CASE NextLayer /\ at < layers
    <2>1. \A n \in Nodes : layer[n] < at + 1 => node[n] = "ok"
      BY <1>1, <1>4 DEF NextLayer, Went, EngineInv
    <2> QED  BY <1>1, <1>2, <1>4, <2>1 DEF NextLayer, EngineInv
  <1>5. CASE NextLayer /\ ~(at < layers)
    <2>1. \A n \in Nodes : node[n] = "ok"
      BY <1>1, <1>5 DEF NextLayer, Went, EngineInv
    <2> QED
      BY <1>1, <1>5, <2>1 DEF NextLayer, EngineInv, Ran, nodes
  <1> QED  BY <1>3, <1>4, <1>5

\* A node at work is in the layer that the engine is at.
LEMMA WorkKeepsEngine ==
  ASSUME TypeOK, EngineInv, NEW n \in Nodes, Work(n)
  PROVE  EngineInv'
  <1>1. /\ engine = "going" /\ UNCHANGED <<sorting, engine, at>>
        /\ node[n] \in {"working", "erred"}
    BY DEF Work, NodeSucceeds, NodeErrs, RecordFailure, NodeRaises
  <1>2. \E v \in {"erred", "ok", "raised"} : node' = [node EXCEPT ![n] = v]
    BY DEF Work, NodeSucceeds, NodeErrs, RecordFailure, NodeRaises
  <1>3. /\ \A k \in Nodes \ {n} : step'[k] = step[k]
        /\ node'[n] = "ok" => step'[n] = "completed"
        /\ step'[n] = "completed" => node'[n] \in {"ok", "raised"}
    <2>1. step[n] # "completed"
      BY <1>1 DEF EngineInv
    <2>2. CASE NodeSucceeds(n)
      BY <2>2 DEF NodeSucceeds, TypeOK
    <2>3. CASE NodeErrs(n)
      BY <2>1, <2>3 DEF NodeErrs, TypeOK
    <2>4. CASE RecordFailure(n)
      BY <2>1, <2>4 DEF RecordFailure, TypeOK
    <2>5. CASE NodeRaises(n)
      BY <2>5 DEF NodeRaises, TypeOK
    <2> QED  BY <2>2, <2>3, <2>4, <2>5 DEF Work
  <1>4. \A k \in Nodes \ {n} : node'[k] = node[k]
    BY <1>2 DEF TypeOK
  <1>5. node[n] # "idle" /\ node[n] # "ok" /\ node'[n] # "idle"
    BY <1>1, <1>2 DEF TypeOK
  <1> QED
    BY <1>1, <1>3, <1>4, <1>5 DEF EngineInv, Placed, sorting

\* The engine's other steps only move it on, and everybody else's leave nodes
\* and engine alone, up to a step that is to be resumed.
LEMMA OthersKeepEngine ==
  ASSUME TypeOK, EngineInv, [Next]_vars,
         ~(Refuse \/ PlaceLayer \/ Accept), ~Begin, ~NextLayer,
         ~\E n \in Nodes : Work(n)
  PROVE  EngineInv'
  <1> USE DEF sorting, nodes
  <1>1. /\ UNCHANGED <<sorting, at, node>>
        /\ \A n \in Nodes : step'[n] = "completed" <=> step[n] = "completed"
    <2>1. CASE UNCHANGED <<sorting, nodes>>
      BY <2>1
    <2>2. CASE Resume
      BY <2>2 DEF Resume, TypeOK
    <2>3. ~Resume => UNCHANGED <<sorting, nodes>>
      BY DEF Next, vars, Proceed, Sort, CreateTask, CreateRun, ClaimRefused, Layers,
             LayerFailed, Settle, CompleteTask, CompleteRun, FailTask, FailRun,
             WriteBreaks, Crash, RenewerDies, Expire, Sweep, SweepRead, SweepWrite,
             Cancel, CancelRead, CancelWrite, Recover, PlainClaim, PlainEnds
    <2> QED  BY <2>1, <2>2, <2>3
  <1>2. \/ engine' = engine
        \/ engine' \in {"done", "gone"}
        \/ engine = "create" /\ engine' = "create_run"
        \/ engine = "create_run" /\ engine' = "scheduled"
        \/ engine \in {"scheduled", "going", "complete", "complete_run"}
             /\ engine' = "fail"
        \/ engine = "complete" /\ engine' = "complete_run"
        \/ engine = "fail" /\ engine' = "fail_run"
    BY DEF Next, vars, Proceed, Sort, CreateTask, CreateRun, ClaimRefused, Layers,
           LayerFailed, Settle, CompleteTask, CompleteRun, FailTask, FailRun,
           WriteBreaks, Crash, RenewerDies, Expire, Sweep, SweepRead, SweepWrite,
           Cancel, CancelRead, CancelWrite, Resume, Recover, PlainClaim, PlainEnds
  <1>3. Placed' = Placed
    BY <1>1 DEF Placed
  <1> QED
    BY <1>1, <1>2, <1>3 DEF EngineInv, Ran

LEMMA NextKeepsEngine ==
  TypeOK /\ SortInv /\ EngineInv /\ [Next]_vars => EngineInv'
  BY NextTypeOK, NextSorts, SortKeepsEngine, LayersKeepEngine, WorkKeepsEngine,
     OthersKeepEngine

LEMMA InitEngine == Init => EngineInv
  BY DEF Init, EngineInv, Placed, Ran

-----------------------------------------------------------------------------
(* The rows                                                                *)

\* Completed steps stay, and an ordinary execution is not forgotten.
LEMMA RanIsStable ==
  ASSUME TypeOK, EngineInv, [Next]_vars
  PROVE  /\ Ran => Ran'
         /\ plain # "never" => plain' # "never"
  <1> USE DEF nodes, others
  <1>1. ASSUME Ran PROVE Ran'
    <2>1. ~\E n \in Nodes : Work(n)
      BY <1>1 DEF Ran, EngineInv, Work, NodeSucceeds, NodeErrs, RecordFailure,
                  NodeRaises
    <2>2. ASSUME NEW n \in Nodes, step[n] = "completed" PROVE step'[n] = "completed"
      <3>1. CASE Resume
        BY <2>2, <3>1 DEF Resume, TypeOK
      <3>2. CASE UNCHANGED step
        BY <2>2, <3>2
      <3>3. ~Resume => UNCHANGED step
        BY <2>1
        DEF Next, vars, Proceed, Sort, Refuse, PlaceLayer, Accept, CreateTask,
            CreateRun, Begin, StartLayer, ClaimRefused, Layers, NextLayer,
            LayerFailed, Settle, CompleteTask, CompleteRun, FailTask, FailRun,
            WriteBreaks, Crash, RenewerDies, Expire, Sweep, SweepRead, SweepWrite,
            Cancel, CancelRead, CancelWrite, Recover, PlainClaim, PlainEnds
      <3> QED  BY <3>1, <3>2, <3>3
    <2> QED  BY <1>1, <2>2 DEF Ran
  <1>2. PlainClaim \/ PlainEnds \/ UNCHANGED plain
    BY DEF Next, vars, Proceed, Sort, Refuse, PlaceLayer, Accept, CreateTask,
           CreateRun, Begin, ClaimRefused, Work, NodeSucceeds, NodeErrs,
           RecordFailure, NodeRaises, Layers, NextLayer, LayerFailed, Settle,
           CompleteTask, CompleteRun, FailTask, FailRun, WriteBreaks, Crash,
           RenewerDies, Expire, Sweep, SweepRead, SweepWrite, Cancel, CancelRead,
           CancelWrite, Resume, Recover
  <1> QED  BY <1>1, <1>2 DEF PlainClaim, PlainEnds

\* Only three steps bring a completed that was not there: the engine's two
\* last ones, and the end of an ordinary execution.
LEMMA CompletedComesFrom ==
  ASSUME TypeOK, [Next]_vars, "completed" \in {task', sweep', run'}
  PROVE  \/ "completed" \in {task, sweep, run}
         \/ CompleteTask \/ CompleteRun \/ PlainEnds
  <1> USE DEF others
  <1>1. CASE Sort \/ CreateTask \/ CreateRun \/ Begin \/ ClaimRefused \/ Layers
    BY <1>1 DEF Sort, Refuse, PlaceLayer, Accept, CreateTask, CreateRun, Begin,
                ClaimRefused, Layers, NextLayer, LayerFailed
  <1>2. CASE Settle
    BY <1>2 DEF Settle, FailTask, FailRun
  <1>3. ASSUME NEW n \in Nodes, Work(n) PROVE UNCHANGED <<task, sweep, run>>
    BY <1>3 DEF Work, NodeSucceeds, NodeErrs, RecordFailure, NodeRaises
  <1>4. CASE WriteBreaks \/ Crash \/ RenewerDies \/ Expire
    BY <1>4 DEF WriteBreaks, Crash, RenewerDies, Expire
  <1>5. CASE Sweep
    BY <1>5 DEF Sweep, SweepRead, SweepWrite
  <1>6. CASE Cancel \/ Resume \/ Recover \/ PlainClaim
    BY <1>6 DEF Cancel, CancelRead, CancelWrite, Resume, Recover, PlainClaim
  <1>7. CASE UNCHANGED vars
    BY <1>7 DEF vars
  <1> QED
    BY <1>1, <1>2, <1>3, <1>4, <1>5, <1>6, <1>7 DEF Next, Proceed

LEMMA NextKeepsOutcome ==
  ASSUME TypeOK, EngineInv, OutcomeInv, [Next]_vars
  PROVE  OutcomeInv'
  <1> SUFFICES ASSUME "completed" \in {task', sweep', run'}
               PROVE  Ran' \/ plain' # "never"
    BY DEF OutcomeInv
  <1>1. CASE "completed" \in {task, sweep, run}
    BY <1>1, RanIsStable DEF OutcomeInv
  <1>2. CASE CompleteTask \/ CompleteRun
    BY <1>2, RanIsStable DEF CompleteTask, CompleteRun, EngineInv
  <1>3. CASE PlainEnds
    BY <1>3 DEF PlainEnds
  <1> QED  BY <1>1, <1>2, <1>3, CompletedComesFrom

-----------------------------------------------------------------------------
(* The theorems                                                            *)

\* The four invariants together are inductive.
THEOREM Invariance == Spec => []IInv
  <1>1. Init => IInv
    BY InitTypeOK, InitSorts, InitEngine DEF IInv, Init, OutcomeInv
  <1>2. IInv /\ [Next]_vars => IInv'
    BY NextTypeOK, NextSorts, NextKeepsEngine, NextKeepsOutcome DEF IInv
  <1> QED  BY <1>1, <1>2, PTL DEF Spec

\* topological_sort with the layer barrier of execute_dag: a node starts only
\* behind the completed steps of all of its dependencies.
THEOREM NodesWaitForDependencies == Spec => []DependenciesFirst
  <1>1. IInv => DependenciesFirst
    <2> SUFFICES ASSUME IInv, NEW n \in Nodes, node[n] # "idle", NEW m \in deps[n]
                 PROVE  m \in Nodes /\ step[m] = "completed"
      BY DEF DependenciesFirst
    <2>1. layer[n] \in 1..at /\ at \in Nat
      BY DEF IInv, EngineInv, TypeOK
    <2>2. m \in Placed /\ layer[m] < layer[n]
      BY <2>1 DEF IInv, SortInv, Placed
    <2>3. m \in Nodes /\ layer[m] < at
      BY <2>1, <2>2 DEF IInv, TypeOK, Placed
    <2> QED  BY <2>2, <2>3 DEF IInv, EngineInv
  <1> QED  BY <1>1, Invariance, PTL

\* execute_dag: behind a failed node, nothing of a later layer starts.
THEOREM FailuresStopTheRun == Spec => []FailureStopsLaterLayers
  <1>1. IInv => FailureStopsLaterLayers
    <2> SUFFICES ASSUME IInv, NEW m \in Nodes, NEW n \in Nodes,
                        node[m] \in {"erred", "raised"}, layer[m] < layer[n]
                 PROVE  node[n] = "idle"
      BY DEF FailureStopsLaterLayers
    <2>1. layer[m] \in 1..at /\ at \in Nat /\ layer \in [Nodes -> Nat]
      BY DEF IInv, EngineInv, TypeOK
    <2>2. ~(layer[m] < at)
      BY <2>1 DEF IInv, EngineInv, Placed
    <2> QED  BY <2>1, <2>2 DEF IInv, EngineInv
  <1> QED  BY <1>1, Invariance, PTL

\* topological_sort refuses only what cannot be sorted ...
THEOREM RefusalsAreRight == Spec => []RefusedIsUnsortable
  <1>1. IInv => RefusedIsUnsortable
    BY DEF IInv, SortInv
  <1> QED  BY <1>1, Invariance, PTL

\* ... and puts every node into the earliest layer it can be in.
THEOREM LayersAreEarliest == Spec => []LayersAreTight
  <1>1. IInv => LayersAreTight
    BY DEF IInv, SortInv
  <1> QED  BY <1>1, Invariance, PTL

\* run_workflow_dag and the orphan sweep: a completed run has a completed step
\* for every node, unless its task was executed as an ordinary one.
THEOREM CompletedRunsRan == Spec => []CompletedRunRanEveryNode
  <1>1. IInv => CompletedRunRanEveryNode
    BY DEF IInv, OutcomeInv, CompletedRunRanEveryNode
  <1> QED  BY <1>1, Invariance, PTL
=============================================================================
