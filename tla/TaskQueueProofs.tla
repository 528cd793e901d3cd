---------------------------- MODULE TaskQueueProofs ----------------------------
(***************************************************************************)
(* Proofs about TaskQueue, for every set of tasks and consumers and every  *)
(* value of max_attempts.  Types and the bound on deliveries hold          *)
(* whatever happens; that a task has one consumer, and that the queue      *)
(* implements LeasedDelivery, is proved from Undisturbed: no lease runs    *)
(* out under a live consumer, and no task is resumed.                      *)
(***************************************************************************)
EXTENDS TaskQueue, FiniteSetTheorems, TLAPS

\* The columns of the items are sound, and no attempt too many is counted.
Sound == ItemsOK /\ AttemptsBounded

\* Whatever changes an item's status and clears its lease keeps it sound.
LEMMA UnleaseSound ==
  ASSUME Sound, NEW t \in Tasks, NEW st \in {"queued", "completed", "dead"},
         NEW late \in BOOLEAN, Unlease(t, st, late)
  PROVE  Sound'
  <1>1. state' \in [Tasks -> {"absent", "queued", "leased"} \cup Terminal]
    BY DEF Sound, ItemsOK, Unlease, Terminal
  <1>2. /\ attempts' \in [Tasks -> Nat]
        /\ token' \in [Tasks -> Consumers \cup {NoToken}]
    BY DEF Sound, ItemsOK, Unlease
  <1>3. lapsed' \in [Tasks -> BOOLEAN] /\ delayed' \in [Tasks -> BOOLEAN]
    BY DEF Sound, ItemsOK, Unlease
  <1>4. ASSUME NEW u \in Tasks
        PROVE  /\ state'[u] = "leased" <=> token'[u] # NoToken
               /\ lapsed'[u] => state'[u] = "leased"
               /\ attempts'[u] <= MaxAttempts
    BY DEF Sound, ItemsOK, AttemptsBounded, Unlease
  <1> QED  BY <1>1, <1>2, <1>3, <1>4 DEF Sound, ItemsOK, AttemptsBounded

\* Steps that leave the items alone keep them sound.
LEMMA SameSound ==
  ASSUME Sound, UNCHANGED item
  PROVE  Sound'
  BY DEF Sound, ItemsOK, AttemptsBounded, item

\* So does the claim, which counts an attempt only if one is left, ...
LEMMA LeaseSound ==
  ASSUME Sound, NEW c \in Consumers, NEW t \in Tasks, Lease(c, t)
  PROVE  Sound'
  BY QueueAssumption
     DEF Sound, ItemsOK, AttemptsBounded, Lease, Matches, Terminal

\* ... the renewal, the passing of time, the recovery sweep ...
LEMMA TimeSound ==
  ASSUME Sound,
         \/ \E c \in Consumers : Renew(c) /\ job[c] \in Tasks
         \/ \E t \in Tasks : Lapse(t) \/ Tick(t)
         \/ Recover
  PROVE  Sound'
  <1> USE DEF Sound, ItemsOK, AttemptsBounded, Terminal
  <1>1. CASE \E c \in Consumers : Renew(c) /\ job[c] \in Tasks
    BY <1>1 DEF Renew, Bears
  <1>2. ASSUME NEW t \in Tasks, Lapse(t) PROVE Sound'
    BY <1>2 DEF Lapse
  <1>3. ASSUME NEW t \in Tasks, Tick(t) PROVE Sound'
    BY <1>3 DEF Tick
  <1>4. CASE Recover
    <2>1. attempts' = attempts /\ delayed' = delayed
      BY <1>4 DEF Recover
    <2>2. state' \in [Tasks -> {"absent", "queued", "leased"} \cup Terminal]
      BY <1>4 DEF Recover
    <2>3. token' \in [Tasks -> Consumers \cup {NoToken}]
      BY <1>4 DEF Recover
    <2>4. lapsed' \in [Tasks -> BOOLEAN]
      BY <1>4 DEF Recover
    <2>5. ASSUME NEW u \in Tasks
          PROVE  /\ state'[u] = "leased" <=> token'[u] # NoToken
                 /\ lapsed'[u] => state'[u] = "leased"
      BY <1>4 DEF Recover
    <2> QED  BY <2>1, <2>2, <2>3, <2>4, <2>5
  <1> QED  BY <1>1, <1>2, <1>3, <1>4

\* ... and the deletion of a settled item.
LEMMA PurgeSound ==
  ASSUME Sound, NEW t \in Tasks, Purge(t)
  PROVE  Sound'
  <1>1. CASE state[t] \in Terminal
    <2>1. /\ state' = [state EXCEPT ![t] = "absent"]
          /\ attempts' = [attempts EXCEPT ![t] = 0]
          /\ delayed' = [delayed EXCEPT ![t] = FALSE]
          /\ token' = token /\ lapsed' = lapsed
      BY <1>1 DEF Purge
    <2>2. /\ state' \in [Tasks -> {"absent", "queued", "leased"} \cup Terminal]
          /\ attempts' \in [Tasks -> Nat]
      BY <2>1 DEF Sound, ItemsOK
    <2>3. delayed' \in [Tasks -> BOOLEAN]
      BY <2>1 DEF Sound, ItemsOK
    <2>4. ASSUME NEW u \in Tasks
          PROVE  /\ state'[u] = "leased" <=> token'[u] # NoToken
                 /\ lapsed'[u] => state'[u] = "leased"
                 /\ attempts'[u] <= MaxAttempts
      BY <1>1, <2>1, QueueAssumption
         DEF Sound, ItemsOK, AttemptsBounded, Terminal
    <2> QED  BY <2>1, <2>2, <2>3, <2>4 DEF Sound, ItemsOK, AttemptsBounded
  <1>2. CASE state[t] \notin Terminal
    BY <1>2, SameSound DEF Purge
  <1> QED  BY <1>1, <1>2

-----------------------------------------------------------------------------

\* The types and the delivery bound hold in the initial state.
LEMMA InitTypeOK == Init => TypeOK /\ AttemptsBounded
  BY QueueAssumption
     DEF Init, TypeOK, ItemsOK, AttemptsBounded, Busy, Terminal, TaskStatus

\* A consumer's own steps keep them.
LEMMA ConsumerTypeOK ==
  ASSUME TypeOK, AttemptsBounded, NEW c \in Consumers,
         Consume(c) \/ Trip(c) \/ Renew(c) \/ Crash(c)
  PROVE  TypeOK' /\ AttemptsBounded'
  <1> SUFFICES TypeOK' /\ Sound'
    BY DEF Sound
  <1>0. Sound
    BY DEF Sound, TypeOK
  <1> USE QueueAssumption, <1>0, SameSound
      DEF TypeOK, Busy, TaskStatus, Goto, Leave, SetTask
  <1>1. CASE Select(c)    BY <1>1 DEF Select, Sound
  <1>2. CASE GiveUp(c)    BY <1>2 DEF GiveUp, Sound
  <1>3. ASSUME NEW t \in Tasks, Lease(c, t)
        PROVE  TypeOK' /\ Sound'
    BY <1>3, LeaseSound DEF Lease, Sound
  <1>4. ASSUME NEW t \in Tasks, Miss(c, t)
        PROVE  TypeOK' /\ Sound'
    BY <1>4 DEF Miss, Sound
  <1>5. CASE Start(c)     BY <1>5 DEF Start, Sound
  <1>6. CASE Finish(c)    BY <1>6 DEF Finish, Sound
  <1>7. CASE Return(c)    BY <1>7 DEF Return, Sound
  <1>8. CASE Complete(c)
    <2>1. Sound'
      BY <1>8, UnleaseSound DEF Complete
    <2> QED  BY <1>8, <2>1 DEF Complete, Sound
  <1>9. CASE FailRead(c)  BY <1>9 DEF FailRead, Sound
  <1>10. CASE FailWrite(c)
    <2>1. Sound'
      BY <1>10, UnleaseSound DEF FailWrite
    <2> QED  BY <1>10, <2>1 DEF FailWrite, Sound
  <1>11. CASE Trip(c)     BY <1>11 DEF Trip, Sound
  <1>12. CASE Renew(c)
    <2>1. Sound'
      BY <1>12, TimeSound DEF Renew
    <2> QED  BY <1>12, <2>1 DEF Renew, Sound
  <1>13. CASE Crash(c)    BY <1>13 DEF Crash, Sound
  <1> QED  BY <1>1, <1>2, <1>3, <1>4, <1>5, <1>6, <1>7, <1>8, <1>9, <1>10,
              <1>11, <1>12, <1>13 DEF Consume

\* So do handlers, other writers of the task row, and time.
LEMMA TaskTypeOK ==
  ASSUME TypeOK, AttemptsBounded, NEW t \in Tasks,
         Serve(t) \/ ApiCrash(t) \/ Interfere(t) \/ Lapse(t) \/ Tick(t)
  PROVE  TypeOK' /\ AttemptsBounded'
  <1> SUFFICES TypeOK' /\ Sound'
    BY DEF Sound
  <1>0. Sound
    BY DEF Sound, TypeOK
  <1> USE QueueAssumption, <1>0, SameSound DEF TypeOK, Busy, TaskStatus, SetTask
  <1>1. CASE Submit(t)    BY <1>1 DEF Submit, Sound
  <1>2. CASE Resume(t)    BY <1>2 DEF Resume, Sound
  <1>3. CASE Purge(t)
    <2>1. Sound'
      BY <1>3, PurgeSound
    <2>2. CASE state[t] \in Terminal     BY <1>3, <2>1, <2>2 DEF Purge, Sound
    <2>3. CASE state[t] \notin Terminal  BY <1>3, <2>1, <2>3 DEF Purge, Sound
    <2> QED  BY <2>2, <2>3
  <1>4. CASE Enqueue(t)
    <2>1. Sound'
      BY <1>4, UnleaseSound DEF Enqueue
    <2> QED  BY <1>4, <2>1 DEF Enqueue, Sound
  <1>5. CASE ApiCrash(t)  BY <1>5 DEF ApiCrash, Sound
  <1>6. CASE Interfere(t) BY <1>6 DEF Interfere, Sound
  <1>7. CASE Lapse(t)
    <2>1. Sound'
      BY <1>7, TimeSound
    <2> QED  BY <1>7, <2>1 DEF Lapse, Sound
  <1>8. CASE Tick(t)
    <2>1. Sound'
      BY <1>8, TimeSound
    <2> QED  BY <1>8, <2>1 DEF Tick, Sound
  <1> QED  BY <1>1, <1>2, <1>3, <1>4, <1>5, <1>6, <1>7, <1>8 DEF Serve

\* Every step keeps the types and the delivery bound.
LEMMA NextTypeOK ==
  TypeOK /\ AttemptsBounded /\ [Next]_vars => TypeOK' /\ AttemptsBounded'
  <1> SUFFICES ASSUME TypeOK, AttemptsBounded, [Next]_vars
               PROVE  TypeOK' /\ AttemptsBounded'
    OBVIOUS
  <1>1. CASE Recover
    BY <1>1, TimeSound DEF Recover, TypeOK, Sound
  <1>2. CASE UNCHANGED vars
    BY <1>2, SameSound DEF vars, TypeOK, Sound
  <1> QED  BY <1>1, <1>2, ConsumerTypeOK, TaskTypeOK DEF Next

\* The types, and the agreement of the lease columns, hold throughout.
THEOREM TypeCorrect == Spec => []TypeOK
  <1>1. Init => TypeOK /\ AttemptsBounded
    BY InitTypeOK
  <1>2. TypeOK /\ AttemptsBounded /\ [Next]_vars
           => (TypeOK /\ AttemptsBounded)'
    BY NextTypeOK
  <1> QED  BY <1>1, <1>2, PTL DEF Spec

LEMMA TypeInvariance == Spec => [](TypeOK /\ AttemptsBounded)
  BY InitTypeOK, NextTypeOK, PTL DEF Spec

-----------------------------------------------------------------------------
(* How many consumers work on a task at once.  Each was handed its item by   *)
(* an attempt of the item as it is, or of one that a resume has deleted.     *)

Purging(t) == IF owed[t] = "purge" THEN 1 ELSE 0

\* Resumes whose deletion of the item, if it was due, is over.
Rounds(t) == resumes - Purging(t)

WorkersCounted ==
    \A t \in Tasks :
        /\ Rounds(t) >= 0
        /\ IsFiniteSet(Workers(t))
        /\ Cardinality(Workers(t)) <= attempts[t] + MaxAttempts * Rounds(t)

LEMMA Budget ==
  ASSUME NEW k \in Nat
  PROVE  MaxAttempts * k \in Nat /\ MaxAttempts * (k + 1) = (MaxAttempts * k) + MaxAttempts
  BY QueueAssumption

\* A task keeps its workers or loses some, while its budget grows; or a consumer
\* comes to it by an attempt.
LEMMA CountKept ==
  ASSUME TypeOK, TypeOK', AttemptsBounded, WorkersCounted, NEW t \in Tasks,
         Rounds(t)' = Rounds(t) \/ Rounds(t)' = Rounds(t) + 1,
         \/ Workers(t)' \subseteq Workers(t) /\ attempts'[t] >= attempts[t]
         \/ Workers(t)' \subseteq Workers(t) /\ Rounds(t)' = Rounds(t) + 1
         \/ /\ attempts'[t] = attempts[t] + 1
            /\ \E c \in Consumers : Workers(t)' = Workers(t) \cup {c}
  PROVE  /\ Rounds(t)' >= 0 /\ IsFiniteSet(Workers(t)')
         /\ Cardinality(Workers(t)') <= attempts'[t] + MaxAttempts * Rounds(t)'
  <1> PICK k \in Nat : k = Rounds(t)
    BY QueueAssumption DEF WorkersCounted, Rounds, Purging, TypeOK
  <1> PICK l \in Nat : l = Rounds(t)' /\ (l = k \/ l = k + 1)
    OBVIOUS
  <1> PICK m \in Nat : m = MaxAttempts * k
    BY Budget
  <1>1. /\ MaxAttempts * l \in Nat /\ m <= MaxAttempts * l
        /\ l = k + 1 => MaxAttempts * l = m + MaxAttempts
    BY Budget, QueueAssumption
  <1>2. /\ attempts[t] \in Nat /\ attempts'[t] \in Nat /\ MaxAttempts \in Nat
        /\ attempts[t] <= MaxAttempts
    BY QueueAssumption DEF TypeOK, ItemsOK, AttemptsBounded
  <1>3. IsFiniteSet(Workers(t)) /\ Cardinality(Workers(t)) <= attempts[t] + m
    BY DEF WorkersCounted
  <1>4. Cardinality(Workers(t)) \in Nat
    BY <1>3, FS_CardinalityType
  <1>5. CASE Workers(t)' \subseteq Workers(t)
    <2>1. IsFiniteSet(Workers(t)') /\ Cardinality(Workers(t)') <= Cardinality(Workers(t))
      BY <1>3, <1>5, FS_Subset
    <2>2. Cardinality(Workers(t)') \in Nat
      BY <2>1, FS_CardinalityType
    <2>3. attempts'[t] >= attempts[t] \/ l = k + 1
      BY <1>2, <1>5
    <2> QED  BY <1>1, <1>2, <1>3, <1>4, <2>1, <2>2, <2>3
  <1>6. CASE /\ attempts'[t] = attempts[t] + 1
             /\ \E c \in Consumers : Workers(t)' = Workers(t) \cup {c}
    <2> PICK c \in Consumers : Workers(t)' = Workers(t) \cup {c}
      BY <1>6
    <2>1. IsFiniteSet(Workers(t)') /\ Cardinality(Workers(t)') <= Cardinality(Workers(t)) + 1
      <3> DEFINE W == Workers(t)
      <3>1. /\ IsFiniteSet(W \cup {c})
            /\ Cardinality(W \cup {c}) = IF c \in W THEN Cardinality(W) ELSE Cardinality(W) + 1
        BY <1>3, FS_AddElement
      <3> HIDE DEF W
      <3>2. Cardinality(W) \in Nat
        BY <1>4 DEF W
      <3>3. Cardinality(W \cup {c}) <= Cardinality(W) + 1
        BY <3>1, <3>2
      <3> QED  BY <3>1, <3>3 DEF W
    <2>2. Cardinality(Workers(t)') \in Nat
      BY <2>1, FS_CardinalityType
    <2> QED  BY <1>1, <1>2, <1>3, <1>4, <1>6, <2>1, <2>2
  <1> QED  BY <1>5, <1>6

\* What each step does to workers, attempts and resumes.
LEMMA WorkersMove ==
  ASSUME TypeOK, TypeOK', AttemptsBounded, WorkersCounted, [Next]_vars
  PROVE  WorkersCounted'
  <1> SUFFICES ASSUME NEW t \in Tasks
               PROVE  /\ Rounds(t)' = Rounds(t) \/ Rounds(t)' = Rounds(t) + 1
                      /\ \/ Workers(t)' \subseteq Workers(t) /\ attempts'[t] >= attempts[t]
                         \/ Workers(t)' \subseteq Workers(t) /\ Rounds(t)' = Rounds(t) + 1
                         \/ /\ attempts'[t] = attempts[t] + 1
                            /\ \E c \in Consumers : Workers(t)' = Workers(t) \cup {c}
    BY CountKept DEF WorkersCounted
  <1>0. resumes \in Int /\ attempts[t] \in Int
    BY QueueAssumption DEF TypeOK, ItemsOK
  <1>1. ASSUME job' = job \/ \E c \in Consumers : Leave(c)
        PROVE  Workers(t)' \subseteq Workers(t)
    BY <1>1, QueueAssumption DEF Workers, Leave, TypeOK
  <1>2. ASSUME NEW c \in Consumers, NEW u \in Tasks, Lease(c, u) PROVE
            /\ Rounds(t)' = Rounds(t)
            /\ \/ Workers(t)' \subseteq Workers(t) /\ attempts'[t] >= attempts[t]
               \/ /\ attempts'[t] = attempts[t] + 1
                  /\ \E d \in Consumers : Workers(t)' = Workers(t) \cup {d}
    <2>1. /\ job' = [job EXCEPT ![c] = u] /\ attempts' = [attempts EXCEPT ![u] = @ + 1]
          /\ UNCHANGED <<owed, resumes>> /\ job \in [Consumers -> Tasks \cup {NoTask}]
          /\ attempts \in [Tasks -> Nat] /\ job[c] = NoTask
      BY <1>2 DEF Lease, TypeOK, ItemsOK, Busy
    <2>2. Rounds(t)' = Rounds(t)
      BY <2>1 DEF Rounds, Purging
    <2>3. CASE u = t
      <3>1. Workers(t)' = Workers(t) \cup {c}
        BY <1>2, <2>1, <2>3 DEF Workers
      <3> QED  BY <1>2, <2>1, <2>2, <2>3, <3>1
    <2>4. CASE u # t
      <3>1. Workers(t)' \subseteq Workers(t) /\ attempts'[t] = attempts[t]
        BY <2>1, <2>4 DEF Workers
      <3> QED  BY <1>0, <2>2, <3>1
    <2> QED  BY <2>3, <2>4
  <1>3. ASSUME UNCHANGED <<attempts, owed, resumes>>, job' = job \/ \E c \in Consumers : Leave(c)
        PROVE  Rounds(t)' = Rounds(t) /\ Workers(t)' \subseteq Workers(t) /\ attempts'[t] >= attempts[t]
    BY <1>0, <1>1, <1>3 DEF Rounds, Purging
  <1>4. ASSUME NEW c \in Consumers, Consume(c) \/ Trip(c) \/ Renew(c) \/ Crash(c),
               \A u \in Tasks : ~Lease(c, u)
        PROVE  UNCHANGED <<attempts, owed, resumes>> /\ (job' = job \/ Leave(c))
    BY <1>4 DEF Consume, Select, GiveUp, Miss, Start, Finish, Return, Complete, FailRead, FailWrite,
                Trip, Renew, Crash, Unlease, item
  <1>5. ASSUME NEW u \in Tasks,
               Submit(u) \/ Enqueue(u) \/ ApiCrash(u) \/ Interfere(u) \/ Lapse(u) \/ Tick(u)
        PROVE  /\ Rounds(t)' = Rounds(t) \/ Rounds(t)' = Rounds(t) + 1
               /\ Workers(t)' \subseteq Workers(t) /\ attempts'[t] >= attempts[t]
    <2>1. /\ UNCHANGED <<attempts, resumes, job>>
          /\ owed' = owed \/ \E to \in {"nothing", "enqueue"} : owed' = [owed EXCEPT ![u] = to]
      BY <1>5 DEF Submit, Enqueue, ApiCrash, Interfere, Lapse, Tick, Unlease, item
    <2>2. owed'[t] = owed[t] \/ owed'[t] # "purge"
      BY <2>1 DEF TypeOK
    <2> QED  BY <1>0, <1>1, <2>1, <2>2 DEF Rounds, Purging
  <1>6. ASSUME NEW u \in Tasks, Resume(u)
        PROVE  /\ Rounds(t)' = Rounds(t) \/ Rounds(t)' = Rounds(t) + 1
               /\ Workers(t)' \subseteq Workers(t) /\ attempts'[t] >= attempts[t]
    <2>1. /\ UNCHANGED <<attempts, job>> /\ resumes' = resumes + 1
          /\ owed[u] = "nothing" /\ owed' = [owed EXCEPT ![u] = "purge"]
      BY <1>6 DEF Resume, item
    <2>2. owed'[t] = (IF t = u THEN "purge" ELSE owed[t])
      BY <2>1 DEF TypeOK
    <2> QED  BY <1>0, <1>1, <2>1, <2>2 DEF Rounds, Purging
  <1>7. ASSUME NEW u \in Tasks, Purge(u)
        PROVE  /\ Workers(t)' \subseteq Workers(t)
               /\ \/ Rounds(t)' = Rounds(t) /\ attempts'[t] >= attempts[t]
                  \/ Rounds(t)' = Rounds(t) + 1
    <2>1. /\ resumes' = resumes /\ owed[u] = "purge" /\ owed' = [owed EXCEPT ![u] = "enqueue"]
          /\ attempts' = attempts \/ attempts' = [attempts EXCEPT ![u] = 0]
          /\ job' = job \/ \E late : job' = [c \in Consumers |-> IF c \in late THEN NoTask ELSE job[c]]
      BY <1>7 DEF Purge, item
    <2>2. owed'[t] = (IF t = u THEN "enqueue" ELSE owed[t]) /\ (t # u => attempts'[t] = attempts[t])
      BY <2>1 DEF TypeOK, ItemsOK
    <2>3. Workers(t)' \subseteq Workers(t)
      BY <2>1, QueueAssumption DEF Workers
    <2> QED  BY <1>0, <2>1, <2>2, <2>3 DEF Rounds, Purging
  <1>8. CASE Recover
    BY <1>3, <1>8 DEF Recover
  <1>9. CASE UNCHANGED vars
    BY <1>3, <1>9 DEF vars, item
  <1>10. CASE \E c \in Consumers : Consume(c) \/ Trip(c) \/ Renew(c) \/ Crash(c)
    BY <1>2, <1>3, <1>4, <1>10
  <1>11. CASE \E u \in Tasks : Serve(u) \/ ApiCrash(u) \/ Interfere(u) \/ Lapse(u) \/ Tick(u)
    BY <1>5, <1>6, <1>7, <1>11 DEF Serve
  <1> QED  BY <1>8, <1>9, <1>10, <1>11 DEF Next

\* However often consumers crash, leases lapse and stale candidates are tried,
\* no item is delivered more often than max_attempts, and no more consumers are at
\* work on a task at once than that, with as many again for each resume
\* (claim_next, resume_task_from_step).
THEOREM AttemptsAreBounded == Spec => []DeliveriesBounded
  <1>1. Init => WorkersCounted
    <2> SUFFICES ASSUME Init, NEW t \in Tasks
                 PROVE  /\ Rounds(t) >= 0 /\ IsFiniteSet(Workers(t))
                        /\ Cardinality(Workers(t)) <= attempts[t] + MaxAttempts * Rounds(t)
      BY DEF WorkersCounted
    <2>1. Rounds(t) = 0 /\ attempts[t] = 0
      <3>1. owed[t] = "nothing" /\ attempts[t] = 0 /\ resumes = 0
        BY DEF Init
      <3> QED  BY <3>1 DEF Rounds, Purging
    <2>2. Workers(t) = {}
      BY QueueAssumption DEF Init, Workers
    <2>3. MaxAttempts * 0 = 0
      BY QueueAssumption
    <2> QED  BY <2>1, <2>2, <2>3, FS_EmptySet
  <1>2. TypeOK /\ AttemptsBounded /\ TypeOK' /\ WorkersCounted /\ [Next]_vars => WorkersCounted'
    BY WorkersMove
  <1>3. TypeOK /\ AttemptsBounded /\ WorkersCounted => DeliveriesBounded
    <2> SUFFICES ASSUME TypeOK, AttemptsBounded, WorkersCounted, NEW t \in Tasks
                 PROVE  Cardinality(Workers(t)) <= MaxAttempts * (resumes + 1)
      BY DEF DeliveriesBounded
    <2> PICK k \in Nat : k = Rounds(t) /\ (k = resumes \/ k + 1 = resumes)
      BY QueueAssumption DEF WorkersCounted, Rounds, Purging, TypeOK
    <2>1. attempts[t] \in Nat /\ attempts[t] <= MaxAttempts /\ MaxAttempts \in Nat
      BY QueueAssumption DEF TypeOK, ItemsOK, AttemptsBounded
    <2>2. /\ MaxAttempts * k \in Nat /\ MaxAttempts * (k + 1) = (MaxAttempts * k) + MaxAttempts
          /\ MaxAttempts * ((k + 1) + 1) = (MaxAttempts * (k + 1)) + MaxAttempts
      BY Budget
    <2>3. Cardinality(Workers(t)) <= attempts[t] + MaxAttempts * k /\ Cardinality(Workers(t)) \in Nat
      BY FS_CardinalityType DEF WorkersCounted
    <2> DEFINE one == MaxAttempts * (k + 1)
               two == MaxAttempts * ((k + 1) + 1)
               none == MaxAttempts * k
    <2>4. none \in Nat /\ one = none + MaxAttempts /\ two = one + MaxAttempts
      BY <2>2
    <2>5. MaxAttempts * (resumes + 1) \in {one, two}
      OBVIOUS
    <2>6. Cardinality(Workers(t)) <= attempts[t] + none
      BY <2>3
    <2> HIDE DEF none, one, two
    <2>7. Cardinality(Workers(t)) <= one /\ one <= two
      BY <2>1, <2>3, <2>4, <2>6
    <2>8. one \in Nat /\ two \in Nat
      BY <2>1, <2>4
    <2> QED  BY <2>3, <2>5, <2>7, <2>8
  <1> QED  BY <1>1, <1>2, <1>3, TypeInvariance, PTL DEF Spec

-----------------------------------------------------------------------------
(* One consumer per task                                                   *)

\* No lease runs out under a live consumer, and no task is resumed.
Undisturbed == CanLapse = FALSE /\ MaxResumes = 0

\* What ExclusiveInv adds to the types and the delivery bound.
Borne == ConsumersBear /\ OnlyNewIsEnqueued /\ QueuedItemHasBudget

\* A consumer's steps keep the strengthening: it bears a live lease from its
\* claim to its settlement.
LEMMA ConsumerBorne ==
  ASSUME Undisturbed, ExclusiveInv, NEW c \in Consumers,
         Consume(c) \/ Trip(c) \/ Renew(c) \/ Crash(c)
  PROVE  Borne'
  <1> USE QueueAssumption
      DEF ExclusiveInv, TypeOK, ItemsOK, Busy, Terminal, Borne, ConsumersBear,
          OnlyNewIsEnqueued, QueuedItemHasBudget, AttemptsBounded,
          Bears, Goto, Leave, SetTask, item
  <1>1. CASE Select(c)    BY <1>1 DEF Select
  <1>2. CASE GiveUp(c)    BY <1>2 DEF GiveUp
  <1>3. ASSUME NEW t \in Tasks, Lease(c, t)
        PROVE  Borne'
    BY <1>3 DEF Lease, Matches, Free
  <1>4. ASSUME NEW t \in Tasks, Miss(c, t)
        PROVE  Borne'
    BY <1>4 DEF Miss
  <1>5. CASE Start(c)     BY <1>5 DEF Start
  <1>6. CASE Finish(c)    BY <1>6 DEF Finish
  <1>7. CASE Return(c)    BY <1>7 DEF Return
  <1>8. CASE Complete(c)  BY <1>8 DEF Complete, Unlease
  <1>9. CASE FailRead(c)  BY <1>9 DEF FailRead
  <1>10. CASE FailWrite(c) BY <1>10 DEF FailWrite, Unlease
  <1>11. CASE Trip(c)     BY <1>11 DEF Trip
  <1>12. CASE Renew(c)    BY <1>12 DEF Renew
  <1>13. CASE Crash(c)    BY <1>13 DEF Crash
  <1> QED  BY <1>1, <1>2, <1>3, <1>4, <1>5, <1>6, <1>7, <1>8, <1>9, <1>10,
              <1>11, <1>12, <1>13 DEF Consume

\* So do the handlers, the other writers and time.
LEMMA TaskBorne ==
  ASSUME Undisturbed, ExclusiveInv, NEW t \in Tasks,
         Serve(t) \/ ApiCrash(t) \/ Interfere(t) \/ Lapse(t) \/ Tick(t)
  PROVE  Borne'
  <1> USE QueueAssumption
      DEF ExclusiveInv, TypeOK, ItemsOK, Busy, Terminal, Borne, ConsumersBear,
          OnlyNewIsEnqueued, QueuedItemHasBudget, AttemptsBounded,
          Bears, SetTask, item
  <1>1. CASE Submit(t)    BY <1>1 DEF Submit
  <1>2. CASE Resume(t)    BY <1>2 DEF Resume, Undisturbed
  <1>3. CASE Purge(t)     BY <1>3 DEF Purge
  <1>4. CASE Enqueue(t)   BY <1>4 DEF Enqueue, Unlease
  <1>5. CASE ApiCrash(t)  BY <1>5 DEF ApiCrash
  <1>6. CASE Interfere(t) BY <1>6 DEF Interfere, TaskStatus
  <1>7. CASE Lapse(t)     BY <1>7 DEF Lapse, Alive, Undisturbed
  <1>8. CASE Tick(t)      BY <1>8 DEF Tick
  <1> QED  BY <1>1, <1>2, <1>3, <1>4, <1>5, <1>6, <1>7, <1>8 DEF Serve

\* ExclusiveInv is inductive.
LEMMA NextExclusiveInv ==
  ASSUME Undisturbed, ExclusiveInv, [Next]_vars
  PROVE  ExclusiveInv'
  <1>1. TypeOK' /\ AttemptsBounded'
    BY NextTypeOK DEF ExclusiveInv
  <1>2. Borne'
    <2>1. CASE Recover
      BY <2>1 DEF Recover, Recoverable, ExclusiveInv, TypeOK, ItemsOK, Borne,
                  ConsumersBear, OnlyNewIsEnqueued, QueuedItemHasBudget, Bears
    <2>2. CASE UNCHANGED vars
      BY <2>2 DEF vars, item, ExclusiveInv, Borne, ConsumersBear,
                  OnlyNewIsEnqueued, QueuedItemHasBudget, Bears
    <2> QED  BY <2>1, <2>2, ConsumerBorne, TaskBorne DEF Next
  <1> QED  BY <1>1, <1>2 DEF ExclusiveInv, Borne

\* It holds initially.
LEMMA InitExclusiveInv == Init => ExclusiveInv
  BY InitTypeOK, QueueAssumption
     DEF Init, ExclusiveInv, ConsumersBear, OnlyNewIsEnqueued, QueuedItemHasBudget

\* Undisturbed, every consumer bears a live lease on its item, and every queued
\* item has an attempt left.
THEOREM ExclusiveInvariance ==
  ASSUME Undisturbed
  PROVE  Spec => []ExclusiveInv
  <1>1. ExclusiveInv /\ [Next]_vars => ExclusiveInv'
    BY NextExclusiveInv
  <1> QED  BY <1>1, InitExclusiveInv, PTL DEF Spec

\* Two consumers never work on one task: claim_next hands an item to a second
\* consumer only when the first one's lease is over.
THEOREM ConsumersAreExclusive ==
  ASSUME Undisturbed
  PROVE  Spec => []OneConsumerPerTask
  <1>1. ExclusiveInv => OneConsumerPerTask
    BY QueueAssumption
       DEF ExclusiveInv, TypeOK, ConsumersBear, OneConsumerPerTask, Bears
  <1> QED  BY <1>1, ExclusiveInvariance, PTL

\* An item is never queued with its attempts used up, where no consumer would
\* ever find it.
THEOREM QueuedItemsAreClaimable ==
  ASSUME Undisturbed
  PROVE  Spec => []QueuedItemHasBudget
  <1>1. ExclusiveInv => QueuedItemHasBudget
    BY DEF ExclusiveInv
  <1> QED  BY <1>1, ExclusiveInvariance, PTL

-----------------------------------------------------------------------------
(* Refinement                                                              *)

\* The abstract view of an item depends on its state, its token and on who
\* works on it.
LEMMA SameView ==
  ASSUME UNCHANGED <<state, token, attempts, job>>
  PROVE  UNCHANGED Delivery!vars
  BY DEF Delivery!vars, Stage, Bearer, Alive, Bears

\* An item is held exactly if a consumer works on it, who is its bearer then.
LEMMA HeldIsWorkedOn ==
  ASSUME ExclusiveInv, NEW t \in Tasks
  PROVE  /\ Stage(t) = "held" <=> \E c \in Consumers : job[c] = t
         /\ \A c \in Consumers : job[c] = t => Bearer(t) = c
         /\ Stage(t) # "held" => Bearer(t) = NoToken
         /\ Stage(t) = "open" <=> \/ state[t] = "queued"
                                  \/ /\ state[t] = "leased"
                                     /\ \A c \in Consumers : job[c] # t
         /\ Stage(t) = "done" <=> state[t] \in Terminal
         /\ Stage(t) = "none" <=> state[t] = "absent"
  BY QueueAssumption
     DEF ExclusiveInv, TypeOK, ItemsOK, ConsumersBear, Stage, Bearer, Alive,
         Bears, Terminal

\* A claim hands the item out.
LEMMA LeaseHands ==
  ASSUME ExclusiveInv, ExclusiveInv', NEW c \in Consumers, NEW t \in Tasks,
         Lease(c, t)
  PROVE  Delivery!Hand(t, c)
  <1> USE QueueAssumption
  <1>1. /\ Stage(t) = "open" /\ attempts[t] < MaxAttempts
    BY HeldIsWorkedOn
       DEF Lease, Matches, Free, ExclusiveInv, TypeOK, ItemsOK, ConsumersBear
  <1>2. job' = [job EXCEPT ![c] = t] /\ job[c] = NoTask
    BY DEF Lease, ExclusiveInv, TypeOK, Busy
  <1>3. ASSUME NEW u \in Tasks
        PROVE  /\ Stage(u)' = IF u = t THEN "held" ELSE Stage(u)
               /\ Bearer(u)' = IF u = t THEN c ELSE Bearer(u)
    <2>1. CASE u = t
      BY <2>1, <1>2
         DEF Lease, ExclusiveInv, TypeOK, ItemsOK, Stage, Bearer, Alive, Bears, Terminal
    <2>2. CASE u # t
      BY <2>2, <1>2
         DEF Lease, ExclusiveInv, TypeOK, ItemsOK, Stage, Bearer, Alive, Bears, Terminal
    <2> QED  BY <2>1, <2>2
  <1>4. attempts' = [attempts EXCEPT ![t] = attempts[t] + 1]
    BY DEF Lease
  <1> QED  BY <1>1, <1>3, <1>4 DEF Delivery!Hand

\* Settling, requeueing and dying let it go.
LEMMA BearerLetsGo ==
  ASSUME ExclusiveInv, ExclusiveInv', NEW c \in Consumers, job[c] \in Tasks,
         NEW to \in {"open", "done"},
         job' = [job EXCEPT ![c] = NoTask], attempts' = attempts,
         \A u \in Tasks \ {job[c]} : state'[u] = state[u] /\ token'[u] = token[u],
         IF to = "done" THEN state'[job[c]] \in Terminal
                        ELSE state'[job[c]] \in {"queued", "leased"}
  PROVE  Delivery!LetGo(job[c], to)
  <1> DEFINE t == job[c]
  <1> USE QueueAssumption
  <1>1. Stage(t) = "held"
    BY HeldIsWorkedOn
  <1>2. \A d \in Consumers : job[d] = t => d = c
    BY DEF ExclusiveInv, TypeOK, ConsumersBear, Bears
  <1>3. \A d \in Consumers : job'[d] # t
    BY <1>2 DEF ExclusiveInv, TypeOK
  <1>4. ASSUME NEW u \in Tasks
        PROVE  /\ Stage(u)' = IF u = t THEN to ELSE Stage(u)
               /\ Bearer(u)' = IF u = t THEN NoToken ELSE Bearer(u)
    <2>1. CASE u = t
      BY <2>1, <1>3 DEF ExclusiveInv, TypeOK, ItemsOK, Stage, Bearer, Alive, Terminal
    <2>2. CASE u # t
      BY <2>2 DEF ExclusiveInv, TypeOK, ItemsOK, Stage, Bearer, Alive, Bears, Terminal
    <2> QED  BY <2>1, <2>2
  <1> QED  BY <1>1, <1>4 DEF Delivery!LetGo

\* A settlement or a requeueing is such a step.
LEMMA UnleaseLetsGo ==
  ASSUME ExclusiveInv, ExclusiveInv', NEW c \in Consumers, job[c] \in Tasks,
         NEW st \in {"queued", "completed", "dead"}, NEW late \in BOOLEAN,
         Unlease(job[c], st, late), Leave(c)
  PROVE  Delivery!LetGo(job[c], IF st = "queued" THEN "open" ELSE "done")
  <1>1. /\ state' = [state EXCEPT ![job[c]] = st]
        /\ token' = [token EXCEPT ![job[c]] = NoToken]
        /\ attempts' = attempts
        /\ job' = [job EXCEPT ![c] = NoTask]
    BY DEF Unlease, Leave
  <1>2. /\ state'[job[c]] = st
        /\ \A u \in Tasks \ {job[c]} : state'[u] = state[u] /\ token'[u] = token[u]
    BY <1>1 DEF ExclusiveInv, TypeOK, ItemsOK
  <1>3. CASE st = "queued"
    BY <1>1, <1>2, <1>3, BearerLetsGo
  <1>4. CASE st \in Terminal /\ st # "queued"
    BY <1>1, <1>2, <1>4, BearerLetsGo
  <1> QED  BY <1>3, <1>4 DEF Terminal

\* A consumer's step is one of these, or invisible.
LEMMA ConsumerRefines ==
  ASSUME ExclusiveInv, ExclusiveInv', NEW c \in Consumers,
         Consume(c) \/ Trip(c) \/ Renew(c) \/ Crash(c)
  PROVE  Delivery!Next \/ UNCHANGED Delivery!vars
  <1>0. phase[c] \in Busy => job[c] \in Tasks /\ Bears(c, job[c])
    BY QueueAssumption DEF ExclusiveInv, TypeOK, ConsumersBear
  <1> USE SameView DEF item, Goto, Leave
  <1>1. CASE Select(c)    BY <1>1 DEF Select
  <1>2. CASE GiveUp(c)    BY <1>2 DEF GiveUp
  <1>3. ASSUME NEW t \in Tasks, Lease(c, t)
        PROVE  Delivery!Next
    BY <1>3, LeaseHands DEF Delivery!Next
  <1>4. ASSUME NEW t \in Tasks, Miss(c, t)
        PROVE  UNCHANGED Delivery!vars
    BY <1>4 DEF Miss
  <1>5. CASE Start(c)     BY <1>5 DEF Start
  <1>6. CASE Finish(c)    BY <1>6 DEF Finish
  <1>7. CASE Return(c)    BY <1>7 DEF Return
  <1>8. CASE Complete(c)
    <2>1. job[c] \in Tasks /\ Bears(c, job[c])
      BY <1>0, <1>8 DEF Complete, Busy
    <2>2. Delivery!LetGo(job[c], "done")
      <3>1. Unlease(job[c], "completed", FALSE) /\ Leave(c)
        BY <1>8, <2>1 DEF Complete
      <3> HIDE DEF Leave
      <3> QED  BY <2>1, <3>1, UnleaseLetsGo
    <2> QED  BY <2>1, <2>2 DEF Delivery!Next
  <1>9. CASE FailRead(c)
    BY <1>0, <1>9 DEF FailRead, Busy
  <1>10. CASE FailWrite(c)
    <2>1. job[c] \in Tasks
      BY <1>0, <1>10 DEF FailWrite, Busy
    <2> HIDE DEF Leave
    <2>2. CASE Unlease(job[c], "dead", FALSE) /\ Leave(c)
      <3>1. Delivery!LetGo(job[c], "done")
        BY <2>1, <2>2, UnleaseLetsGo
      <3> QED  BY <2>1, <3>1 DEF Delivery!Next
    <2>3. CASE Unlease(job[c], "queued", TRUE) /\ Leave(c)
      <3>1. Delivery!LetGo(job[c], "open")
        BY <2>1, <2>3, UnleaseLetsGo
      <3> QED  BY <2>1, <3>1 DEF Delivery!Next
    <2> QED  BY <1>10, <2>2, <2>3 DEF FailWrite
  <1>11. CASE Trip(c)     BY <1>11 DEF Trip
  <1>12. CASE Renew(c)    BY <1>12 DEF Renew
  <1>13. CASE Crash(c)
    <2>1. CASE phase[c] \in Busy
      <3>1. job[c] \in Tasks /\ state[job[c]] = "leased"
        BY <1>0, <2>1 DEF Bears
      <3>2. Delivery!LetGo(job[c], "open")
        BY <1>13, <3>1, BearerLetsGo DEF Crash
      <3> QED  BY <3>1, <3>2 DEF Delivery!Next
    <2>2. CASE phase[c] \notin Busy
      BY <1>13, <2>2 DEF Crash, ExclusiveInv, TypeOK
    <2> QED  BY <2>1, <2>2
  <1> QED  BY <1>1, <1>2, <1>3, <1>4, <1>5, <1>6, <1>7, <1>8, <1>9, <1>10,
              <1>11, <1>12, <1>13 DEF Consume

\* Enqueueing offers a new item; the other handlers and time are invisible.
LEMMA TaskRefines ==
  ASSUME Undisturbed, ExclusiveInv, ExclusiveInv', NEW t \in Tasks,
         Serve(t) \/ ApiCrash(t) \/ Interfere(t) \/ Lapse(t) \/ Tick(t)
  PROVE  Delivery!Next \/ UNCHANGED Delivery!vars
  <1> USE SameView DEF item
  <1>1. CASE Submit(t)    BY <1>1 DEF Submit
  <1>2. CASE Resume(t)    BY <1>2 DEF Resume
  <1>3. CASE Purge(t)
    BY <1>3 DEF Purge, ExclusiveInv, OnlyNewIsEnqueued
  <1>4. CASE Enqueue(t)
    <2>1. state[t] = "absent" /\ Unlease(t, "queued", FALSE)
      BY <1>4 DEF Enqueue, ExclusiveInv, OnlyNewIsEnqueued, Terminal
    <2>2. token[t] = NoToken
      BY <2>1 DEF ExclusiveInv, TypeOK, ItemsOK
    <2>3. ASSUME NEW u \in Tasks
          PROVE  /\ Stage(u)' = IF u = t THEN "open" ELSE Stage(u)
                 /\ Bearer(u)' = Bearer(u)
      <3>1. CASE u = t
        BY <3>1, <2>1, <2>2, <1>4, QueueAssumption
           DEF Enqueue, Unlease, Stage, Bearer, Alive, Bears, Terminal,
               ExclusiveInv, TypeOK, ItemsOK
      <3>2. CASE u # t
        BY <3>2, <2>1, <1>4
           DEF Enqueue, Unlease, Stage, Bearer, Alive, Bears, Terminal,
               ExclusiveInv, TypeOK, ItemsOK
      <3> QED  BY <3>1, <3>2
    <2>4. Stage(t) = "none"
      BY <2>1, HeldIsWorkedOn
    <2>5. attempts' = attempts
      BY <2>1 DEF Unlease
    <2>6. Delivery!Offer(t)
      BY <2>3, <2>4, <2>5 DEF Delivery!Offer
    <2> QED  BY <2>6 DEF Delivery!Next
  <1>5. CASE ApiCrash(t)  BY <1>5 DEF ApiCrash
  <1>6. CASE Interfere(t) BY <1>6 DEF Interfere
  <1>7. CASE Lapse(t)     BY <1>7 DEF Lapse
  <1>8. CASE Tick(t)      BY <1>8 DEF Tick
  <1> QED  BY <1>1, <1>2, <1>3, <1>4, <1>5, <1>6, <1>7, <1>8 DEF Serve

\* The recovery sweep touches items nobody holds: they stay open.
LEMMA RecoverRefines ==
  ASSUME ExclusiveInv, ExclusiveInv', Recover
  PROVE  UNCHANGED Delivery!vars
  <1>1. ASSUME NEW u \in Tasks
        PROVE  Stage(u)' = Stage(u) /\ Bearer(u)' = Bearer(u)
    <2>1. CASE Recoverable(u)
      <3>1. \A c \in Consumers : job[c] # u
        BY <2>1, QueueAssumption DEF Recoverable, ExclusiveInv, ConsumersBear
      <3>2. state[u] = "leased" /\ state'[u] = "queued"
        BY <2>1 DEF Recover, Recoverable, ExclusiveInv, TypeOK, ItemsOK
      <3> QED  BY <3>1, <3>2 DEF Stage, Bearer, Alive, Terminal
    <2>2. CASE ~Recoverable(u)
      BY <2>2 DEF Recover, ExclusiveInv, TypeOK, ItemsOK, Stage, Bearer, Alive, Bears
    <2> QED  BY <2>1, <2>2
  <1>2. attempts' = attempts
    BY DEF Recover
  <1> QED  BY <1>1, <1>2 DEF Delivery!vars

\* The queue implements LeasedDelivery: one bearer at a time, settled by it
\* only, and handed out at most max_attempts times.
THEOREM QueueImplementsDelivery ==
  ASSUME Undisturbed
  PROVE  Spec => ImplementsDelivery
  <1>1. Init => Delivery!Init
    BY QueueAssumption DEF Init, Delivery!Init, Stage, Bearer, Alive, Bears, Terminal
  <1>2. ExclusiveInv /\ ExclusiveInv' /\ [Next]_vars => [Delivery!Next]_(Delivery!vars)
    <2> SUFFICES ASSUME ExclusiveInv, ExclusiveInv', [Next]_vars
                 PROVE  Delivery!Next \/ UNCHANGED Delivery!vars
      OBVIOUS
    <2>1. CASE UNCHANGED vars
      BY <2>1, SameView DEF vars, item
    <2> QED  BY <2>1, ConsumerRefines, TaskRefines, RecoverRefines DEF Next
  <1> QED  BY <1>1, <1>2, ExclusiveInvariance, PTL
              DEF Spec, ImplementsDelivery, Delivery!Spec
=============================================================================
