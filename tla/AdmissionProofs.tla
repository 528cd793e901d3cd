---------------------------- MODULE AdmissionProofs ----------------------------
(***************************************************************************)
(* The safety properties of Admission for any finite number of requests,   *)
(* any limits and any mentions.                                            *)
(***************************************************************************)
EXTENDS Admission, FiniteSetTheorems, WellFoundedInduction, TLAPS

-----------------------------------------------------------------------------
(* Numbers, and finite sets of them                                        *)

\* The remainder of a division is unique.
LEMMA Remainder ==
  ASSUME NEW x \in Nat, NEW m \in Nat \ {0}, NEW q \in Int, NEW r \in 0..(m - 1), x = (m * q) + r
  PROVE  x % m = r
  <1> DEFINE p == x \div m
             s == x % m
  <1>1. p \in Int /\ s \in 0..(m - 1) /\ x = (m * p) + s
    OBVIOUS
  <1> HIDE DEF p, s
  <1>2. m * (q - p) = s - r
    BY <1>1
  <1>3. ~(q - p >= 1)
    <2>1. q - p >= 1 => m * (q - p) >= m
      BY <1>1
    <2> QED  BY <1>1, <1>2, <2>1
  <1>4. ~(q - p <= -1)
    <2>1. q - p <= -1 => m * (q - p) <= -m
      BY <1>1
    <2> QED  BY <1>1, <1>2, <2>1
  <1>5. s = r
    BY <1>1, <1>2, <1>3, <1>4
  <1> QED  BY <1>5 DEF s

\* A moment later the minute is the same, unless it is a new one.
LEMMA NextRemainder ==
  ASSUME NEW x \in Nat, NEW m \in Nat \ {0}, (x + 1) % m # 0
  PROVE  (x + 1) % m = (x % m) + 1
  <1> DEFINE q == x \div m
             r == x % m
  <1>1. q \in Int /\ r \in 0..(m - 1) /\ x = (m * q) + r
    OBVIOUS
  <1> HIDE DEF q, r
  <1>2. CASE r + 1 \in 0..(m - 1)
    <2>1. x + 1 = (m * q) + (r + 1)
      BY <1>1
    <2> QED  BY <1>1, <1>2, <2>1, Remainder DEF r
  <1>3. CASE r + 1 = m
    <2>1. x + 1 = (m * (q + 1)) + 0
      BY <1>1, <1>3
    <2>2. (x + 1) % m = 0
      BY <2>1, <1>1, Remainder
    <2> QED  BY <2>2
  <1> QED  BY <1>1, <1>2, <1>3

\* A set of numbers has a least one.
LEMMA LeastExists ==
  ASSUME NEW S \in SUBSET Nat, S # {}
  PROVE  \E x \in S : \A y \in S : x <= y
  <1>1. PICK x \in S : \A y \in S : ~(<<y, x>> \in OpToRel(<, Nat))
    <2>1. IsWellFoundedOn(OpToRel(<, Nat), Nat)
      BY NatLessThanWellFounded
    <2> QED  BY <2>1, WFMin
  <1>2. \A y \in S : ~(y < x)
    BY <1>1 DEF OpToRel
  <1> QED  BY <1>2

\* How many members of a set are no more than x.
UpTo(S, x) == {y \in S : y <= x}

LEMMA UpToFinite ==
  ASSUME NEW S, IsFiniteSet(S), NEW x
  PROVE  /\ IsFiniteSet(UpTo(S, x)) /\ Cardinality(UpTo(S, x)) \in Nat
         /\ Cardinality(UpTo(S, x)) <= Cardinality(S) /\ Cardinality(S) \in Nat
  <1>1. UpTo(S, x) \in SUBSET S
    BY DEF UpTo
  <1> QED  BY <1>1, FS_Subset, FS_CardinalityType

\* The member above x that is next to it has one more below it than x.
LEMMA NextUpTo ==
  ASSUME NEW S \in SUBSET Nat, IsFiniteSet(S), NEW x \in S, UpTo(S, x) # S
  PROVE  \E y \in S : y > x /\ Cardinality(UpTo(S, y)) = Cardinality(UpTo(S, x)) + 1
  <1> DEFINE above == {y \in S : y > x}
  <1>1. above \in SUBSET Nat /\ above # {}
    <2>1. PICK y \in S : ~(y <= x)
      BY DEF UpTo
    <2>2. y \in Nat /\ x \in Nat
      OBVIOUS
    <2>3. y \in above
      BY <2>1, <2>2
    <2> QED  BY <2>3
  <1>2. \E y \in above : \A z \in above : y <= z
    BY <1>1, LeastExists
  <1>3. PICK y \in S : y > x /\ \A z \in S : z > x => y <= z
    BY <1>2
  <1>4. x \in Nat /\ y \in Nat /\ \A z \in S : z \in Nat
    OBVIOUS
  <1>5. \A z \in S : z <= y <=> z <= x \/ z = y
    BY <1>3, <1>4
  <1>6. UpTo(S, y) = UpTo(S, x) \cup {y} /\ y \notin UpTo(S, x)
    <2>1. UpTo(S, y) = UpTo(S, x) \cup {y}
      BY <1>5 DEF UpTo
    <2>2. ~(y <= x)
      BY <1>3, <1>4
    <2> QED  BY <2>1, <2>2 DEF UpTo
  <1>7. Cardinality(UpTo(S, y)) = Cardinality(UpTo(S, x)) + 1
    BY <1>6, UpToFinite, FS_AddElement
  <1> QED  BY <1>3, <1>7

\* For every number up to its size a set has a member with as many up to it.
LEMMA NthExists ==
  ASSUME NEW S \in SUBSET Nat, IsFiniteSet(S), NEW k \in 1..Cardinality(S)
  PROVE  \E i \in S : Cardinality(UpTo(S, i)) = k
  <1> DEFINE n == Cardinality(S)
             missing == {m \in 1..n : \A i \in S : Cardinality(UpTo(S, i)) # m}
  <1>1. n \in Nat
    BY FS_CardinalityType
  <1>2. SUFFICES ASSUME missing # {} PROVE FALSE
    BY <1>1
  <1>3. PICK m \in missing : \A l \in missing : m <= l
    <2>1. missing \in SUBSET Nat
      BY <1>1
    <2> HIDE DEF missing
    <2> QED  BY <1>2, <2>1, LeastExists
  <1>4. m \in Nat \ {0} /\ m <= n /\ \A i \in S : Cardinality(UpTo(S, i)) # m
    BY <1>1
  <1>5. CASE m = 1
    <2>1. S # {}
      BY <1>1, <1>4, FS_EmptySet
    <2>2. PICK i \in S : \A j \in S : i <= j
      BY <2>1, LeastExists
    <2>3. UpTo(S, i) = {i}
      <3>1. \A j \in S : j <= i <=> j = i
        BY <2>2
      <3> QED  BY <3>1 DEF UpTo
    <2> QED  BY <1>4, <1>5, <2>3, FS_Singleton
  <1>6. CASE m # 1
    <2>1. m - 1 \in 1..n /\ m - 1 \notin missing
      BY <1>1, <1>3, <1>4, <1>6
    <2>2. PICK i \in S : Cardinality(UpTo(S, i)) = m - 1
      BY <2>1
    <2>3. UpTo(S, i) # S
      BY <1>1, <1>4, <2>2
    <2>4. \E j \in S : Cardinality(UpTo(S, j)) = (m - 1) + 1
      BY <2>2, <2>3, NextUpTo
    <2> QED  BY <1>4, <2>4
  <1> QED  BY <1>5, <1>6

LEMMA MaxExists ==
  ASSUME NEW S \in SUBSET Nat, IsFiniteSet(S), S # {}
  PROVE  Max(S) \in S /\ \A x \in S : x <= Max(S)
  <1> DEFINE n == Cardinality(S)
  <1>1. n \in Nat /\ n # 0
    BY FS_CardinalityType, FS_EmptySet
  <1>2. PICK m \in S : Cardinality(UpTo(S, m)) = n
    <2>1. n \in 1..Cardinality(S)
      BY <1>1
    <2> QED  BY <2>1, NthExists
  <1>3. UpTo(S, m) = S
    BY <1>2, FS_Subset DEF UpTo
  <1>4. \A x \in S : m >= x
    BY <1>3 DEF UpTo
  <1>5. Max(S) \in S /\ \A x \in S : Max(S) >= x
    BY <1>4 DEF Max
  <1> QED  BY <1>5

LEMMA MaxOfTwo ==
  ASSUME NEW a \in Nat, NEW b \in Nat
  PROVE  Max({a, b}) \in {a, b} /\ a <= Max({a, b}) /\ b <= Max({a, b})
  <1>1. \E x \in {a, b} : \A y \in {a, b} : x >= y
    OBVIOUS
  <1> QED  BY <1>1 DEF Max

LEMMA MinOfTwo ==
  ASSUME NEW a \in Nat, NEW b \in Nat
  PROVE  Min({a, b}) \in {a, b} /\ Min({a, b}) <= a /\ Min({a, b}) <= b
  <1>1. \E x \in {a, b} : \A y \in {a, b} : x <= y
    OBVIOUS
  <1> QED  BY <1>1 DEF Min
-----------------------------------------------------------------------------
(* Mentions                                                                *)

LEMMA NthIsThere ==
  ASSUME NEW S \in SUBSET Nat, IsFiniteSet(S), NEW k \in 1..Cardinality(S)
  PROVE  Nth(S, k) \in S /\ Cardinality(UpTo(S, Nth(S, k))) = k
  <1>1. \E i \in S : Cardinality({j \in S : j <= i}) = k
    BY NthExists DEF UpTo
  <1> QED  BY <1>1 DEF Nth, UpTo

\* A relay has at most MaxRelay agents, each once.
LEMMA RelaySound ==
  ASSUME NEW m \in Seq(Agents \cup Nodes)
  PROVE  /\ Relay(m) \in Seq(Agents) /\ Len(Relay(m)) <= MaxRelay
         /\ IsInjective(Relay(m))
  <1> DEFINE first == FirstMentions(m)
             n == Min({MaxRelay, Cardinality(first)})
  <1>1. /\ first \subseteq 1..Len(m) /\ Len(m) \in Nat
        /\ \A i \in first : m[i] \in Agents /\ \A j \in 1..(i - 1) : m[j] # m[i]
    BY DEF FirstMentions
  <1>2. first \in SUBSET Nat /\ IsFiniteSet(first)
    <2>1. IsFiniteSet(1..Len(m))
      BY <1>1, FS_Interval
    <2>2. first \in SUBSET (1..Len(m)) /\ first \in SUBSET Nat
      BY <1>1
    <2> HIDE DEF first
    <2> QED  BY <2>1, <2>2, FS_Subset
  <1>3. Cardinality(first) \in Nat
    BY <1>2, FS_CardinalityType
  <1>4. n \in Nat /\ n <= MaxRelay /\ n <= Cardinality(first)
    BY <1>3, MinOfTwo, AdmissionAssumption
  <1>5. Relay(m) = [k \in 1..n |-> m[Nth(first, k)]]
    BY DEF Relay
  <1> HIDE DEF first, n
  <1>6. ASSUME NEW k \in 1..n
        PROVE  Nth(first, k) \in first /\ Cardinality(UpTo(first, Nth(first, k))) = k
    <2>1. k \in 1..Cardinality(first)
      BY <1>3, <1>4
    <2> QED  BY <1>2, <2>1, NthIsThere
  <1>7. \A k \in 1..n : m[Nth(first, k)] \in Agents
    BY <1>1, <1>6
  <1>8. Relay(m) \in Seq(Agents) /\ Len(Relay(m)) = n
    BY <1>4, <1>5, <1>7
  <1>9. \A i, j \in first : m[i] = m[j] => i = j
    <2> SUFFICES ASSUME NEW i \in first, NEW j \in first, m[i] = m[j], i < j PROVE FALSE
      BY <1>2
    <2>1. i \in 1..(j - 1)
      BY <1>1
    <2> QED  BY <1>1, <2>1
  <1>10. \A k, l \in 1..n : m[Nth(first, k)] = m[Nth(first, l)] => k = l
    BY <1>6, <1>9
  <1>11. IsInjective(Relay(m))
    BY <1>5, <1>10 DEF IsInjective
  <1> QED  BY <1>4, <1>8, <1>11

LEMMA TargetsSound ==
  ASSUME NEW to \in Targets
  PROVE  /\ to \in Seq(Agents \cup Nodes)
         /\ Len(to) <= MaxRelay /\ IsInjective(to)
         /\ \A i \in DOMAIN to : to[i] \in (IF Len(to) = 1 THEN Agents \cup Nodes ELSE Agents)
  <1> DEFINE Sound(s) == /\ s \in Seq(Agents \cup Nodes)
                         /\ Len(s) <= MaxRelay /\ IsInjective(s)
                         /\ \A i \in DOMAIN s : s[i] \in (IF Len(s) = 1 THEN Agents \cup Nodes ELSE Agents)
  <1> USE AdmissionAssumption
  <1>1. Sound(<<>>)
    BY DEF IsInjective
  <1>2. ASSUME NEW x \in Agents \cup Nodes PROVE Sound(<<x>>)
    BY DEF IsInjective
  <1>3. ASSUME NEW s \in Seq(Agents), Len(s) <= MaxRelay, IsInjective(s) PROVE Sound(s)
    <2>1. s \in Seq(Agents \cup Nodes) /\ \A i \in DOMAIN s : s[i] \in Agents
      OBVIOUS
    <2> QED  BY <1>3, <2>1
  <1> HIDE DEF Sound
  <1>4. ASSUME NEW m \in Messages PROVE Sound(Route(m))
    <2>1. m \in Seq(Agents \cup Nodes)
      OBVIOUS
    <2>2. CASE m # <<>> /\ Head(m) \in Nodes
      BY <2>2, <1>2 DEF Route
    <2>3. CASE ~(m # <<>> /\ Head(m) \in Nodes) /\ Relay(m) # <<>>
      <3>1. Route(m) = Relay(m)
        BY <2>3 DEF Route
      <3> QED  BY <2>1, <3>1, <1>3, RelaySound
    <2>4. CASE ~(m # <<>> /\ Head(m) \in Nodes) /\ Relay(m) = <<>>
      <3>1. Route(m) = IF Default # NoAgent THEN <<Default>> ELSE <<>>
        BY <2>4 DEF Route
      <3> QED  BY <3>1, <1>1, <1>2
    <2> QED  BY <2>2, <2>3, <2>4
  <1>5. Sound(to)
    BY <1>1, <1>4 DEF Targets
  <1> QED  BY <1>5 DEF Sound
-----------------------------------------------------------------------------
(* Types                                                                   *)

USE DEF limiter, tasks, left

Midway == {"asks", "creates", "sets", "counts", "stores", "enqueues", "dispatches"}

\* A request whose record is replaced by one of a journey.
LEMMA GoesTyped ==
  ASSUME TypeOK, NEW r \in Requests, NEW st \in Journey, Goes(r, st)
  PROVE  request' \in [Requests -> Journey]
  BY DEF Goes, TypeOK

LEMMA Steps ==
  /\ Over \in Journey
  /\ \A kind \in Kinds, to \in Targets :
        /\ \A at \in Midway : [at |-> at, kind |-> kind, to |-> to] \in Journey
        /\ \A limit \in Nat : [at |-> "limits", kind |-> kind, to |-> to, limit |-> limit] \in Journey
  BY DEF Journey, Over, Midway

LEMMA Knows ==
  ASSUME TypeOK, NEW r \in Requests, request[r].at \in Midway \cup {"limits"}
  PROVE  /\ request[r].kind \in Kinds /\ request[r].to \in Targets
         /\ request[r].at = "limits" => request[r].limit \in Nat
         /\ request[r].at \in Midway =>
               request[r] = [at |-> request[r].at, kind |-> request[r].kind, to |-> request[r].to]
  BY DEF TypeOK, Journey, Midway

LEMMA ThenTyped ==
  ASSUME TypeOK, NEW r \in Requests, request[r].at \in Midway, NEW phase \in Midway, Then(r, phase)
  PROVE  /\ request' = [request EXCEPT ![r] = [at |-> phase, kind |-> request[r].kind, to |-> request[r].to]]
         /\ request' \in [Requests -> Journey]
  <1>1. request[r] = [at |-> request[r].at, kind |-> request[r].kind, to |-> request[r].to]
        /\ request[r].kind \in Kinds /\ request[r].to \in Targets
    BY Knows
  <1>2. [request[r] EXCEPT !.at = phase] = [at |-> phase, kind |-> request[r].kind, to |-> request[r].to]
    BY <1>1
  <1>3. [at |-> phase, kind |-> request[r].kind, to |-> request[r].to] \in Journey
    BY <1>1, Steps
  <1> QED  BY <1>2, <1>3, GoesTyped DEF Then, Goes

\* What the limiter answers takes the request on, or ends it.
LEMMA PassesTyped ==
  ASSUME TypeOK, NEW r \in Requests, At(r, "limits"), NEW allowed, Passes(r, allowed)
  PROVE  /\ request' \in [Requests -> Journey]
         /\ \A q \in Requests \ {r} : request'[q] = request[q]
         /\ \/ request'[r].at = "over"
            \/ /\ request'[r].kind = request[r].kind
               /\ request'[r].at = IF request[r].kind = "task" THEN "stores" ELSE "counts"
  <1>1. request[r].kind \in Kinds /\ request[r].to \in Targets
    BY Knows DEF At
  <1>2. CASE Goes(r, Over)
    BY <1>2, Steps, GoesTyped DEF Goes, Over, TypeOK
  <1>3. CASE Goes(r, [at |-> IF request[r].kind = "task" THEN "stores" ELSE "counts",
                      kind |-> request[r].kind, to |-> request[r].to])
    <2> DEFINE at == IF request[r].kind = "task" THEN "stores" ELSE "counts"
    <2>1. at \in Midway
      BY DEF Midway
    <2> HIDE DEF at
    <2>2. [at |-> at, kind |-> request[r].kind, to |-> request[r].to] \in Journey
      BY <1>1, <2>1, Steps
    <2>3. request' = [request EXCEPT ![r] = [at |-> at, kind |-> request[r].kind, to |-> request[r].to]]
      BY <1>3 DEF Goes, at
    <2>4. request'[r].at = at /\ request'[r].kind = request[r].kind
          /\ \A q \in Requests \ {r} : request'[q] = request[q]
      BY <2>3 DEF TypeOK
    <2> QED  BY <1>3, <2>2, <2>4, GoesTyped DEF at
  <1> QED  BY <1>2, <1>3 DEF Passes

\* What is taken from the front of the deque is older than a minute.
LEMMA RecentSound ==
  ASSUME TypeOK
  PROVE  \E k \in 0..Len(bucket) :
            /\ Recent \in Seq(0..now) /\ Len(Recent) = Len(bucket) - k
            /\ \A i \in 1..k : bucket[i] < now - Minute
            /\ \A i \in 1..Len(Recent) : Recent[i] = bucket[k + i]
  <1> DEFINE cutoff == now - Minute
             Old(k) == /\ \A i \in 1..k : bucket[i] < cutoff
                       /\ k < Len(bucket) => bucket[k + 1] >= cutoff
             lasting == {j \in 1..Len(bucket) : bucket[j] >= cutoff}
  <1>1. /\ bucket \in Seq(0..now) /\ Len(bucket) \in Nat /\ now \in Nat /\ cutoff \in Int
        /\ \A i \in 1..Len(bucket) : bucket[i] \in 0..now
    <2> DEFINE S == 0..now
    <2>1. bucket \in Seq(S) /\ now \in Nat
      BY DEF TypeOK
    <2>2. cutoff \in Int
      <3>1. Minute \in Nat
        BY AdmissionAssumption
      <3> QED  BY <2>1, <3>1
    <2> HIDE DEF S, cutoff
    <2>3. Len(bucket) \in Nat /\ \A i \in 1..Len(bucket) : bucket[i] \in S
      BY <2>1
    <2> QED  BY <2>1, <2>2, <2>3 DEF S
  <1> HIDE DEF cutoff
  <1>2. \E k \in 0..Len(bucket) : Old(k)
    <2>1. CASE lasting = {}
      <3>1. \A i \in 1..Len(bucket) : bucket[i] < cutoff
        BY <1>1, <2>1
      <3> QED  BY <1>1, <3>1
    <2>2. CASE lasting # {}
      <3>1. lasting \in SUBSET Nat
        BY <1>1
      <3>2. \E j \in lasting : \A i \in lasting : j <= i
        <4> HIDE DEF lasting
        <4> QED  BY <2>2, <3>1, LeastExists
      <3>3. PICK j \in 1..Len(bucket) : /\ bucket[j] >= cutoff
                                        /\ \A i \in 1..Len(bucket) : bucket[i] >= cutoff => j <= i
        BY <3>2
      <3>4. j - 1 \in 0..Len(bucket) /\ (j - 1) + 1 = j
        BY <1>1
      <3>5. \A i \in 1..(j - 1) : bucket[i] < cutoff
        BY <1>1, <3>3
      <3>6. Old(j - 1)
        BY <3>3, <3>4, <3>5
      <3> QED  BY <3>4, <3>6
    <2> QED  BY <2>1, <2>2
  <1> DEFINE stale == CHOOSE k \in 0..Len(bucket) : Old(k)
  <1>3. stale \in 0..Len(bucket) /\ Old(stale)
    BY <1>2
  <1>4. Recent = SubSeq(bucket, stale + 1, Len(bucket))
    BY DEF Recent, cutoff
  <1> HIDE DEF stale
  <1>5. Recent \in Seq(0..now) /\ Len(Recent) = Len(bucket) - stale
        /\ \A i \in 1..Len(Recent) : Recent[i] = bucket[stale + i]
    BY <1>1, <1>3, <1>4
  <1> QED  BY <1>3, <1>5 DEF cutoff

LEMMA Constants ==
  /\ MaxRelay \in Nat \ {0} /\ MaxRunning \in Nat \ {0} /\ Minute \in Nat \ {0}
  /\ FirstLimit \in Nat \ {0} /\ MaxTime \in Nat /\ MaxFaults \in Nat
  /\ \A limit \in Limits : limit \in Nat
  BY AdmissionAssumption

\* The records of the limiter, and what is written to them.
Redis == [up : BOOLEAN, count : Nat]
Quota == [row : BOOLEAN, limit : Nat]
Tally == [passes : Nat, top : Nat, counters : Nat, local : BOOLEAN]

LEMMA LimiterTyped == TypeOK => redis \in Redis /\ quota \in Quota /\ tally \in Tally
  BY DEF TypeOK, Redis, Quota, Tally

LEMMA TopTyped ==
  ASSUME TypeOK, NEW limit \in Nat
  PROVE  /\ [tally EXCEPT !.top = Max({@, limit})] \in Tally
         /\ Row(limit) \in Quota
  <1>1. tally \in Tally
    BY LimiterTyped
  <1>2. Max({tally.top, limit}) \in Nat
    BY <1>1, MaxOfTwo DEF Tally
  <1> QED  BY <1>1, <1>2 DEF Tally, Quota, Row

LEMMA TallyWritten ==
  ASSUME NEW t \in Tally, NEW p \in Nat, NEW c \in Nat, NEW l \in BOOLEAN,
         NEW w, w = [t EXCEPT !.passes = p, !.counters = c, !.local = l]
  PROVE  /\ w \in Tally
         /\ w.passes = p /\ w.top = t.top /\ w.counters = c /\ w.local = l
  BY DEF Tally

LEMMA CountTyped ==
  ASSUME TypeOK, NEW allowed \in BOOLEAN
  PROVE  /\ [redis EXCEPT !.count = @ + 1] \in Redis
         /\ [tally EXCEPT !.passes = @ + (IF allowed THEN 1 ELSE 0)] \in Tally
         /\ [tally EXCEPT !.passes = @ + (IF allowed THEN 1 ELSE 0),
                          !.counters = @ + (IF tally.local THEN 0 ELSE 1),
                          !.local = TRUE] \in Tally
  <1>1. redis \in Redis /\ tally \in Tally
    BY LimiterTyped
  <1> DEFINE one == IF allowed THEN 1 ELSE 0
             own == IF tally.local THEN 0 ELSE 1
  <1>2. one \in Nat /\ own \in Nat
    OBVIOUS
  <1> HIDE DEF one, own
  <1>3. [redis EXCEPT !.count = @ + 1] \in Redis
    BY <1>1 DEF Redis
  <1>4. [tally EXCEPT !.passes = @ + one] \in Tally
    BY <1>1, <1>2 DEF Tally
  <1>5. [tally EXCEPT !.passes = @ + one, !.counters = @ + own, !.local = TRUE] \in Tally
    <2>1. tally.passes + one \in Nat /\ tally.counters + own \in Nat
      BY <1>1, <1>2 DEF Tally
    <2>2. [tally EXCEPT !.passes = tally.passes + one, !.counters = tally.counters + own,
                        !.local = TRUE] \in Tally
      BY <1>1, <2>1, TallyWritten DEF Tally
    <2> QED  BY <2>2
  <1> QED  BY <1>3, <1>4, <1>5 DEF one, own

LEMMA InitTypeOK == Init => TypeOK
  <1> SUFFICES ASSUME Init PROVE TypeOK
    OBVIOUS
  <1>1. request \in [Requests -> Journey]
    BY DEF Init, Journey
  <1>2. quota \in Quota
    <2>1. NoRow \in Quota /\ \A limit \in Limits : Row(limit) \in Quota
      BY Constants DEF NoRow, Row, Quota
    <2> QED  BY <2>1 DEF Init
  <1>3. redis \in Redis /\ tally \in Tally
    BY <1>2 DEF Init, Redis, Tally, Quota
  <1>4. leased \subseteq Running /\ attended \subseteq Active
    BY DEF Init
  <1>5. bucket \in Seq(0..now) /\ now \in 0..MaxTime /\ faults \in 0..MaxFaults
    BY Constants DEF Init
  <1> QED
    BY <1>1, <1>2, <1>3, <1>4, <1>5, TargetsSound DEF Init, TypeOK, Redis, Quota, Tally

HeldLimits == {request[r].limit : r \in {q \in Requests : request[q].at = "limits"}}

\* The limits in use have a highest one.
LEMMA LimitsInUse ==
  ASSUME TypeOK
  PROVE  LET S == HeldLimits \cup {quota.limit}
         IN  Max(S) \in Nat /\ \A x \in S : x <= Max(S)
  <1> DEFINE asking == {q \in Requests : request[q].at = "limits"}
             S == HeldLimits \cup {quota.limit}
  <1>1. IsFiniteSet(asking)
    BY AdmissionAssumption, FS_Subset
  <1>2. IsFiniteSet(HeldLimits)
    <2> DEFINE f == [r \in asking |-> request[r].limit]
    <2>1. f \in Surjection(asking, HeldLimits)
      BY DEF Surjection, HeldLimits
    <2> HIDE DEF asking, f
    <2> QED  BY <1>1, <2>1, FS_Surjection
  <1>3. S \in SUBSET Nat /\ S # {}
    BY Knows, LimiterTyped DEF HeldLimits, Quota
  <1>4. IsFiniteSet(S)
    BY <1>2, FS_AddElement
  <1> HIDE DEF S
  <1>5. Max(S) \in S /\ \A x \in S : x <= Max(S)
    BY <1>3, <1>4, MaxExists
  <1> QED  BY <1>3, <1>5 DEF S

\* The parts of TypeOK that concern a request, the limiter and the tasks.
LEMMA QuotaTypeOK ==
  ASSUME TypeOK, NEW r \in Requests,
         \/ Begin(r) \/ ReadQuota(r) \/ CreateQuota(r) \/ UpdateQuota(r)
  PROVE  TypeOK'
  <1> USE AdmissionAssumption DEF TypeOK, Active, Running
  <1>1. Begin(r) \/ ReadQuota(r) => TypeOK' \/ request' \notin [Requests -> Journey]
    BY DEF Begin, BeginMessage, BeginTask, BeginUpdate, Arrive, ReadQuota
  <1>2. ASSUME Begin(r) PROVE request' \in [Requests -> Journey]
    <2>1. PICK kind \in Kinds, to \in Targets : Arrive(r, kind, to)
      BY <1>2 DEF Begin, BeginMessage, BeginTask, BeginUpdate, Kinds, Targets
    <2>2. "asks" \in Midway
      BY DEF Midway
    <2>3. [at |-> "asks", kind |-> kind, to |-> to] \in Journey
      BY <2>2, Steps
    <2> QED  BY <2>1, <2>3, GoesTyped DEF Arrive
  <1>3. ASSUME ReadQuota(r) PROVE request' \in [Requests -> Journey]
    <2>1. request[r].at = "asks" /\ "asks" \in Midway /\ "creates" \in Midway /\ "sets" \in Midway
      BY <1>3 DEF ReadQuota, At, Midway
    <2>2. CASE Then(r, "creates") \/ Then(r, "sets")
      BY <2>1, <2>2, ThenTyped
    <2>3. CASE Goes(r, [at |-> "limits", kind |-> request[r].kind, to |-> request[r].to,
                        limit |-> quota.limit])
      <3>1. request[r].kind \in Kinds /\ request[r].to \in Targets /\ quota.limit \in Nat
        BY <2>1, Knows
      <3> QED  BY <2>3, <3>1, Steps, GoesTyped
    <2> QED  BY <1>3, <2>2, <2>3 DEF ReadQuota
  <1>4. CASE CreateQuota(r)
    <2>1. request[r].at = "creates" /\ "asks" \in Midway /\ "creates" \in Midway
      BY <1>4 DEF CreateQuota, At, Midway
    <2>2. request' \in [Requests -> Journey]
      <3>1. Goes(r, Over) \/ Then(r, "asks")
        BY <1>4 DEF CreateQuota
      <3>2. CASE Goes(r, Over)
        BY <3>2, GoesTyped, Steps
      <3>3. CASE Then(r, "asks")
        BY <2>1, <3>3, ThenTyped
      <3> QED  BY <3>1, <3>2, <3>3
    <2>3. quota' \in Quota /\ tally' \in Tally
      <3>1. [tally EXCEPT !.top = Max({@, FirstLimit})] \in Tally /\ Row(FirstLimit) \in Quota
        BY TopTyped, Constants
      <3>2. \/ UNCHANGED <<quota, tally>>
            \/ quota' = Row(FirstLimit) /\ tally' = [tally EXCEPT !.top = Max({@, FirstLimit})]
        BY <1>4 DEF CreateQuota
      <3> QED  BY <3>1, <3>2, LimiterTyped
    <2> QED  BY <1>4, <2>2, <2>3 DEF CreateQuota, Quota, Tally
  <1>5. CASE UpdateQuota(r)
    <2>1. request' \in [Requests -> Journey]
      BY <1>5, GoesTyped, Steps DEF UpdateQuota
    <2>2. quota' \in Quota /\ tally' \in Tally
      <3>1. PICK limit \in Limits : quota' = Row(limit) /\ tally' = [tally EXCEPT !.top = Max({@, limit})]
        BY <1>5 DEF UpdateQuota
      <3>2. [tally EXCEPT !.top = Max({@, limit})] \in Tally /\ Row(limit) \in Quota
        BY TopTyped, Constants
      <3> QED  BY <3>1, <3>2
    <2> QED  BY <1>5, <2>1, <2>2 DEF UpdateQuota, Quota, Tally
  <1> QED  BY <1>1, <1>2, <1>3, <1>4, <1>5

LEMMA LimitTypeOK ==
  ASSUME TypeOK, NEW r \in Requests, Unlimited(r) \/ LimitByRedis(r) \/ LimitByMemory(r)
  PROVE  TypeOK'
  <1> USE AdmissionAssumption DEF TypeOK, Active, Running
  <1>1. request' \in [Requests -> Journey]
    BY PassesTyped DEF Unlimited, LimitByRedis, LimitByMemory
  <1>2. CASE Unlimited(r)
    BY <1>1, <1>2 DEF Unlimited
  <1>3. CASE LimitByRedis(r)
    <2>1. redis' \in Redis /\ tally' \in Tally
      BY <1>3, CountTyped DEF LimitByRedis, Within
    <2> QED  BY <1>1, <1>3, <2>1 DEF LimitByRedis, Redis, Tally
  <1>4. CASE LimitByMemory(r)
    <2>1. Recent \in Seq(0..now)
      BY RecentSound
    <2>2. bucket' \in Seq(0..now)
      <3>1. now \in 0..now
        BY Constants
      <3>2. bucket' = Append(Recent, now) \/ bucket' = Recent
        BY <1>4 DEF LimitByMemory
      <3> DEFINE S == 0..now
      <3>3. Recent \in Seq(S) /\ now \in S
        BY <2>1, <3>1
      <3> HIDE DEF S
      <3>4. Append(Recent, now) \in Seq(S)
        BY <3>3
      <3> QED  BY <3>2, <3>3, <3>4 DEF S
    <2>3. redis' \in Redis /\ tally' \in Tally
      BY <1>4, CountTyped, LimiterTyped DEF LimitByMemory
    <2>4. faults' \in 0..MaxFaults
      <3>1. faults' = faults \/ (faults < MaxFaults /\ faults' = faults + 1)
        BY <1>4 DEF LimitByMemory
      <3>2. faults \in 0..MaxFaults /\ MaxFaults \in Nat
        BY Constants
      <3> QED  BY <3>1, <3>2
    <2>5. UNCHANGED <<mode, backend, now, quota, tasks, crowded, raced, left>>
      BY <1>4 DEF LimitByMemory
    <2> QED  BY <1>1, <2>2, <2>3, <2>4, <2>5 DEF Redis, Tally
  <1> QED  BY <1>2, <1>3, <1>4

\* A task is not there before its request has stored it.
Unstored ==
    \A r \in Requests :
        request[r].at \notin {"enqueues", "dispatches", "over"} => task[r] = "none"

LEMMA TaskTypeOK ==
  ASSUME TypeOK, Unstored, NEW r \in Requests,
         \/ CountActive(r) \/ StoreTask(r) \/ Enqueue(r) \/ Dispatch(r) \/ Execute(r)
  PROVE  TypeOK'
  <1>1. CASE CountActive(r) \/ Enqueue(r) \/ Dispatch(r)
    <2>1. request' \in [Requests -> Journey]
      <3>1. request[r].at \in Midway /\ "stores" \in Midway /\ "dispatches" \in Midway
        BY <1>1 DEF CountActive, Enqueue, Dispatch, At, Midway
      <3> QED  BY <1>1, <3>1, ThenTyped, GoesTyped, Steps DEF CountActive, Enqueue, Dispatch
    <2>2. attended' \subseteq Active /\ item' \subseteq Requests
      BY <1>1 DEF CountActive, Enqueue, Dispatch, TypeOK, Active
    <2> QED  BY <1>1, <2>1, <2>2 DEF CountActive, Enqueue, Dispatch, TypeOK, Active, Running
  <1>2. CASE StoreTask(r)
    <2>1. request' \in [Requests -> Journey]
      <3>1. request[r].at \in Midway /\ "enqueues" \in Midway
        BY <1>2 DEF StoreTask, At, Midway
      <3> QED  BY <1>2, <3>1, ThenTyped, GoesTyped, Steps DEF StoreTask
    <2>2. task' = [task EXCEPT ![r] = "pending"]
          /\ UNCHANGED <<mode, backend, limiter, quota, leased, item, attended, skipped, young, cut, faults>>
      BY <1>2 DEF StoreTask
    <2>3. crowded' \cup raced' \cup direct' \subseteq Requests
      BY <1>2 DEF StoreTask, TypeOK, Overtaken
    <2>4. task' \in [Requests -> {"none", "pending", "running", "ended"}]
      BY <2>2 DEF TypeOK
    <2>5. attended' \subseteq Active'
      BY <2>2 DEF TypeOK, Active
    <2>6. task[r] # "running"
      BY <1>2 DEF StoreTask, At, Unstored
    <2>7. leased' \subseteq Running'
      BY <2>2, <2>6 DEF TypeOK, Running
    <2> QED  BY <2>1, <2>2, <2>3, <2>4, <2>5, <2>7 DEF TypeOK
  <1>3. CASE Run(r)
    <2>1. leased' \subseteq Running' /\ attended' \subseteq Active' /\ item' \subseteq Requests
      BY <1>3 DEF Run, TypeOK, Active, Running
    <2> QED  BY <1>3, <2>1 DEF Run, TypeOK
  <1>4. CASE Finish(r)
    <2>1. leased' \subseteq Running' /\ attended' \subseteq Active' /\ item' \subseteq Requests
      BY <1>4 DEF Finish, TypeOK, Active, Running
    <2> QED  BY <1>4, <2>1 DEF Finish, TypeOK
  <1>5. CASE LoseLease(r)
    BY <1>5 DEF LoseLease, TypeOK, Active, Running
  <1> QED  BY <1>1, <1>2, <1>3, <1>4, <1>5 DEF Execute

LEMMA BackendTypeOK ==
  ASSUME TypeOK, Stop \/ Start \/ LoseRedis \/ RedisReturns \/ Tick
  PROVE  TypeOK'
  <1>1. CASE Stop
    <2>1. request' \in [Requests -> Journey]
      BY <1>1, Steps DEF Stop, TypeOK
    <2>2. attended' \subseteq Active' /\ Running' = Running /\ cut' \subseteq Requests
      BY <1>1 DEF Stop, TypeOK, Active, Running
    <2>3. bucket' \in Seq(0..now')
      BY <1>1 DEF Stop
    <2>4. faults' \in 0..MaxFaults
      BY <1>1, Constants DEF Stop, TypeOK
    <2>5. tally' \in Tally
      BY <1>1, LimiterTyped DEF Stop, Tally
    <2> QED  BY <1>1, <2>1, <2>2, <2>3, <2>4, <2>5 DEF Stop, TypeOK, Tally
  <1>2. CASE Start
    <2>1. Taken \subseteq Waiting /\ Waiting \subseteq Active
      BY DEF Taken, Waiting, Expired, Active, Running
    <2>2. CASE mode = "queue"
      BY <1>2, <2>2 DEF Start, TypeOK, Active, Running
    <2>3. CASE mode # "queue"
      <3>1. task' = [r \in Requests |-> IF r \in Expired THEN "pending" ELSE task[r]]
            /\ attended' = Taken /\ skipped' = Waiting \ Taken /\ young' = Running \cap leased
        BY <1>2, <2>3 DEF Start
      <3>2. Active' = Active /\ Running' = Running \ Expired
        BY <3>1 DEF Active, Running, Expired
      <3>3. leased' \subseteq Running'
        BY <1>2, <3>2 DEF Start, TypeOK, Expired
      <3>4. task' \in [Requests -> {"none", "pending", "running", "ended"}]
        BY <3>1 DEF TypeOK
      <3>5. skipped' \cup young' \subseteq Requests
        BY <2>1, <3>1 DEF Active, Running
      <3> QED  BY <1>2, <2>1, <3>1, <3>2, <3>3, <3>4, <3>5 DEF Start, TypeOK
    <2> QED  BY <2>2, <2>3
  <1>3. CASE LoseRedis
    <2>1. [redis EXCEPT !.up = FALSE] \in Redis
      BY LimiterTyped DEF Redis
    <2>2. redis' \in Redis
      BY <1>3, <2>1 DEF LoseRedis
    <2>3. faults' \in 0..MaxFaults
      BY <1>3, Constants DEF LoseRedis, TypeOK
    <2> QED  BY <1>3, <2>2, <2>3 DEF LoseRedis, TypeOK, Redis, Active, Running
  <1>4. CASE RedisReturns
    <2>1. [redis EXCEPT !.up = TRUE] \in Redis /\ [up |-> TRUE, count |-> 0] \in Redis
      BY LimiterTyped DEF Redis
    <2>2. [tally EXCEPT !.counters = @ + 1] \in Tally
      BY LimiterTyped DEF Tally
    <2>3. redis' \in Redis /\ tally' \in Tally
      BY <1>4, <2>1, <2>2, LimiterTyped DEF RedisReturns
    <2> QED  BY <1>4, <2>3 DEF RedisReturns, TypeOK, Redis, Tally, Active, Running
  <1>5. CASE Tick
    <2>1. now' \in 0..MaxTime /\ now' = now + 1 /\ now \in Nat
      BY <1>5, Constants DEF Tick, TypeOK
    <2>2. bucket' \in Seq(0..now')
      <3>1. \A i \in 1..Len(bucket) : bucket[i] \in 0..now'
        BY <2>1 DEF TypeOK
      <3> QED  BY <1>5, <3>1 DEF Tick, TypeOK
    <2>3. redis' \in Redis
      BY <1>5, LimiterTyped DEF Tick, Redis
    <2>4. tally' \in Tally
      <3>1. Max(HeldLimits \cup {quota.limit}) \in Nat
        BY LimitsInUse
      <3> DEFINE highest == Max(HeldLimits \cup {quota.limit})
                 fresh == [passes |-> 0, top |-> highest, counters |-> 1, local |-> FALSE]
      <3>2. tally' = tally \/ tally' = fresh
        BY <1>5 DEF Tick, HeldLimits
      <3>3. fresh \in Tally
        <4>1. highest \in Nat
          BY <3>1
        <4> HIDE DEF highest
        <4> QED  BY <4>1 DEF Tally
      <3> HIDE DEF fresh
      <3> QED  BY <3>2, <3>3, LimiterTyped
    <2> QED  BY <1>5, <2>1, <2>2, <2>3, <2>4 DEF Tick, TypeOK, Redis, Tally, Active, Running
  <1> QED  BY <1>1, <1>2, <1>3, <1>4, <1>5

TypeInv == TypeOK /\ Unstored

LEMMA NextUnstored ==
  ASSUME TypeOK, Unstored, Next
  PROVE  Unstored'
  <1> USE DEF Unstored, TypeOK
  <1>1. ASSUME NEW r \in Requests, Begin(r)
        PROVE  Unstored'
    BY <1>1 DEF Begin, BeginMessage, BeginTask, BeginUpdate, Arrive, NextOne, Goes
  <1>2. ASSUME NEW r \in Requests,
               ReadQuota(r) \/ CreateQuota(r) \/ UpdateQuota(r) \/ Unlimited(r)
               \/ LimitByRedis(r) \/ LimitByMemory(r) \/ CountActive(r)
        PROVE  Unstored'
    <2>1. task[r] = "none" /\ UNCHANGED task
      BY <1>2 DEF ReadQuota, CreateQuota, UpdateQuota, Unlimited, LimitByRedis, LimitByMemory,
                  CountActive, At
    <2>2. PICK st : Goes(r, st)
      BY <1>2 DEF ReadQuota, CreateQuota, UpdateQuota, Unlimited, LimitByRedis, LimitByMemory,
                  CountActive, Passes, Then
    <2> QED  BY <2>1, <2>2 DEF Goes
  <1>3. ASSUME NEW r \in Requests, StoreTask(r) \/ Enqueue(r) \/ Dispatch(r)
        PROVE  Unstored'
    <2>1. request'[r].at \in {"enqueues", "dispatches", "over"}
          /\ \A q \in Requests \ {r} : request'[q] = request[q] /\ task'[q] = task[q]
      <3>1. PICK phase \in {"enqueues", "dispatches", "over"} : Then(r, phase) \/ Goes(r, Over)
        BY <1>3 DEF StoreTask, Enqueue, Dispatch
      <3>2. request[r].at \in Midway
        BY <1>3 DEF StoreTask, Enqueue, Dispatch, At, Midway
      <3>3. [request[r] EXCEPT !.at = phase].at = phase
        BY <3>2, Knows
      <3> DEFINE st == IF Goes(r, Over) THEN Over ELSE [request[r] EXCEPT !.at = phase]
      <3>4. Goes(r, st) /\ st.at \in {"enqueues", "dispatches", "over"}
        BY <3>1, <3>3 DEF Then, Over
      <3> HIDE DEF st
      <3>5. request'[r].at \in {"enqueues", "dispatches", "over"}
            /\ \A q \in Requests \ {r} : request'[q] = request[q]
        BY <3>4 DEF Goes
      <3> QED  BY <1>3, <3>5 DEF StoreTask, Enqueue, Dispatch
    <2> QED  BY <2>1
  <1>4. ASSUME NEW r \in Requests, Execute(r)
        PROVE  Unstored'
    BY <1>4 DEF Execute, Run, Finish, LoseLease, Active, Running
  <1>5. CASE Stop
    BY <1>5 DEF Stop, Over
  <1>6. CASE Start
    BY <1>6 DEF Start, Expired, Running
  <1>7. CASE LoseRedis \/ RedisReturns \/ Tick
    BY <1>7 DEF LoseRedis, RedisReturns, Tick
  <1> QED  BY <1>1, <1>2, <1>3, <1>4, <1>5, <1>6, <1>7 DEF Next, Serve

LEMMA NextTypeInv == TypeInv /\ [Next]_vars => TypeInv'
  <1> SUFFICES ASSUME TypeOK, Unstored, [Next]_vars PROVE TypeInv'
    BY DEF TypeInv
  <1>1. CASE Next
    <2>1. TypeOK'
      BY <1>1, QuotaTypeOK, LimitTypeOK, TaskTypeOK, BackendTypeOK DEF Next, Serve
    <2> QED  BY <1>1, <2>1, NextUnstored DEF TypeInv
  <1>2. CASE UNCHANGED vars
    BY <1>2 DEF vars, TypeInv, TypeOK, Unstored, Active, Running
  <1> QED  BY <1>1, <1>2

LEMMA InitTypeInv == Init => TypeInv
  BY InitTypeOK DEF Init, TypeInv, Unstored

LEMMA TypeInvariance == Spec => []TypeInv
  BY InitTypeInv, NextTypeInv, PTL DEF Spec

\* Every variable keeps its type, and whatever is mentioned a relay has at most
\* MaxRelay agents, each once (_dedupe_agents, receive_user_message).
THEOREM TypeCorrect == Spec => []TypeOK
  BY TypeInvariance, PTL DEF TypeInv
-----------------------------------------------------------------------------
(* The limit of active tasks                                               *)

Limited == {"limits", "counts", "stores"}

\* An update of the quota is not limited by it.
Unchecked == \A r \in Requests : request[r].at \in Limited => request[r].kind # "update"

\* A message that has counted and that no other has overtaken still finds room.
Room ==
    \A r \in Requests :
        request[r].at = "stores" /\ request[r].kind = "message" /\ r \notin raced
            => Cardinality(Active) < MaxRunning

\* A step of a request moves that request alone, and takes it on as follows.
LEMMA Moves ==
  ASSUME TypeOK, NEW r \in Requests, Begin(r) \/ Serve(r)
  PROVE  /\ \A q \in Requests \ {r} : request'[q] = request[q]
         /\ request'[r].at = "stores" => request'[r].kind # "message" \/ CountActive(r)
         /\ request'[r].at = "limits" => request'[r].limit = quota.limit
         /\ request'[r].at \in Limited =>
               \/ request'[r].kind # "update"
               \/ request[r].at \in Limited /\ request'[r].kind = request[r].kind
         /\ StoreTask(r) => request'[r].at = IF request[r].kind = "task" THEN "over" ELSE "enqueues"
         /\ Enqueue(r) => request'[r].at = "dispatches"
         /\ Dispatch(r) => request'[r].at = "over"
  <1> USE DEF TypeOK
  <1> DEFINE Simple == Begin(r) \/ ReadQuota(r) \/ CreateQuota(r) \/ UpdateQuota(r)
             Limit == Unlimited(r) \/ LimitByRedis(r) \/ LimitByMemory(r)
  <1>1. ASSUME NEW st, Goes(r, st)
        PROVE  request'[r] = st /\ \A q \in Requests \ {r} : request'[q] = request[q]
    BY <1>1 DEF Goes
  <1>2. ASSUME NEW phase \in Midway, Then(r, phase), request[r].at \in Midway
        PROVE  /\ request'[r].at = phase /\ request'[r].kind = request[r].kind
               /\ \A q \in Requests \ {r} : request'[q] = request[q]
    <2>1. request' = [request EXCEPT ![r] = [at |-> phase, kind |-> request[r].kind, to |-> request[r].to]]
      BY <1>2, ThenTyped
    <2> QED  BY <2>1
  <1>3. Over.at = "over"
    BY DEF Over
  <1>4. {"creates", "sets", "asks", "stores", "enqueues", "dispatches", "counts"} \subseteq Midway
    BY DEF Midway
  <1>5. ASSUME Simple
        PROVE  /\ \A q \in Requests \ {r} : request'[q] = request[q]
               /\ request'[r].at \notin {"stores", "enqueues", "dispatches"}
               /\ request'[r].at = "limits" =>
                     request'[r].limit = quota.limit /\ request'[r].kind # "update"
               /\ request'[r].at # "counts"
    <2>1. CASE Begin(r)
      <3>1. PICK kind, to : Arrive(r, kind, to)
        BY <2>1 DEF Begin, BeginMessage, BeginTask, BeginUpdate
      <3> QED  BY <3>1, <1>1 DEF Arrive
    <2>2. CASE ReadQuota(r)
      BY <2>2, <1>1, <1>2, <1>4 DEF ReadQuota, At
    <2>3. CASE CreateQuota(r)
      BY <2>3, <1>1, <1>2, <1>3, <1>4 DEF CreateQuota, At
    <2>4. CASE UpdateQuota(r)
      BY <2>4, <1>1, <1>3 DEF UpdateQuota
    <2> QED  BY <1>5, <2>1, <2>2, <2>3, <2>4
  <1>6. ASSUME Limit
        PROVE  /\ \A q \in Requests \ {r} : request'[q] = request[q]
               /\ request'[r].at \in {"over", "stores", "counts"}
               /\ request'[r].at # "over" => request'[r].kind = request[r].kind
               /\ request'[r].at = "stores" => request'[r].kind # "message"
    BY <1>6, PassesTyped DEF Unlimited, LimitByRedis, LimitByMemory
  <1>7. ASSUME CountActive(r)
        PROVE  /\ \A q \in Requests \ {r} : request'[q] = request[q]
               /\ request'[r].at \in {"over", "stores"}
               /\ request'[r].at # "over" => request'[r].kind = request[r].kind
    BY <1>7, <1>1, <1>2, <1>3, <1>4 DEF CountActive, At
  <1>8. ASSUME StoreTask(r)
        PROVE  /\ \A q \in Requests \ {r} : request'[q] = request[q]
               /\ request'[r].at = IF request[r].kind = "task" THEN "over" ELSE "enqueues"
    BY <1>8, <1>1, <1>2, <1>3, <1>4 DEF StoreTask, At
  <1>9. ASSUME Enqueue(r) \/ Dispatch(r)
        PROVE  /\ \A q \in Requests \ {r} : request'[q] = request[q]
               /\ request'[r].at = IF Enqueue(r) THEN "dispatches" ELSE "over"
    <2>1. Enqueue(r) => ~Dispatch(r)
      BY DEF Enqueue, Dispatch, At
    <2> QED  BY <1>9, <2>1, <1>1, <1>2, <1>3, <1>4 DEF Enqueue, Dispatch, At
  <1>10. /\ StoreTask(r) => request[r].at = "stores"
         /\ Enqueue(r) => request[r].at = "enqueues"
         /\ Dispatch(r) => request[r].at = "dispatches"
         /\ Simple => request[r].at \in {"none", "asks", "creates", "sets"}
         /\ Limit => request[r].at = "limits"
         /\ CountActive(r) => request[r].at = "counts"
    BY DEF StoreTask, Enqueue, Dispatch, At, Begin, BeginMessage, BeginTask, BeginUpdate, Arrive,
           NextOne, ReadQuota, CreateQuota, UpdateQuota, Unlimited, LimitByRedis, LimitByMemory,
           CountActive
  <1>11. Simple \/ Limit \/ CountActive(r) \/ StoreTask(r) \/ Enqueue(r) \/ Dispatch(r)
    BY DEF Serve
  <1> HIDE DEF Simple, Limit
  <1> QED  BY <1>5, <1>6, <1>7, <1>8, <1>9, <1>10, <1>11 DEF Limited

LEMMA NoMore ==
  ASSUME NEW S \in SUBSET Requests, NEW T \in SUBSET S
  PROVE  Cardinality(T) <= Cardinality(S) /\ Cardinality(S) \in Nat /\ Cardinality(T) \in Nat
  <1>1. IsFiniteSet(S)
    BY AdmissionAssumption, FS_Subset
  <1> QED  BY <1>1, FS_Subset, FS_CardinalityType

LEMMA NextRoom ==
  ASSUME TypeOK, Room, Next
  PROVE  Room'
  <1>1. ASSUME NEW r \in Requests, StoreTask(r)
        PROVE  Room'
    <2>1. /\ \A q \in Requests \ {r} : request'[q] = request[q]
          /\ request'[r].at # "stores"
      BY <1>1, Moves DEF Serve
    <2>2. raced' = (raced \cup Overtaken(r)) \ {r}
      BY <1>1 DEF StoreTask
    <2> QED  BY <2>1, <2>2 DEF Room, Overtaken
  <1>2. ASSUME Active' \subseteq Active, UNCHANGED raced,
               \A q \in Requests : \/ request'[q] = request[q]
                                   \/ request'[q].at = "stores" => request'[q].kind # "message"
        PROVE  Room'
    <2>1. Cardinality(Active') <= Cardinality(Active)
          /\ Cardinality(Active) \in Nat /\ Cardinality(Active') \in Nat
      <3>1. Active \in SUBSET Requests /\ Active' \in SUBSET Active
        BY <1>2 DEF Active
      <3> QED  BY <3>1, NoMore
    <2> QED  BY <1>2, <2>1, Constants DEF Room
  <1>3. ASSUME NEW r \in Requests, Begin(r) \/ Serve(r), ~CountActive(r), ~StoreTask(r)
        PROVE  Room'
    <2>1. UNCHANGED <<task, raced>>
      BY <1>3 DEF Begin, BeginMessage, BeginTask, BeginUpdate, Arrive, Serve, ReadQuota, CreateQuota,
                  UpdateQuota, Unlimited, LimitByRedis, LimitByMemory, Enqueue, Dispatch
    <2> QED  BY <1>2, <1>3, <2>1, Moves DEF Active
  <1>4. ASSUME NEW r \in Requests, CountActive(r)
        PROVE  Room'
    <2>1. UNCHANGED <<task, raced>> /\ (Full => request'[r].at = "over")
      BY <1>4 DEF CountActive, Goes, Over, TypeOK
    <2>2. Full \/ Cardinality(Active) < MaxRunning
      <3>1. Active \in SUBSET Requests
        BY DEF Active
      <3>2. Cardinality(Active) \in Nat
        BY <3>1, NoMore
      <3> QED  BY <3>2, Constants DEF Full
    <2>3. \A q \in Requests \ {r} : request'[q] = request[q]
      BY <1>4, Moves DEF Serve
    <2>4. Active' = Active
      BY <2>1 DEF Active
    <2> QED  BY <2>1, <2>2, <2>3, <2>4 DEF Room
  <1>5. ASSUME NEW r \in Requests, Execute(r)
        PROVE  Room'
    <2>1. UNCHANGED <<request, raced>> /\ Active' \subseteq Active
      BY <1>5 DEF Execute, Run, Finish, LoseLease, Active, TypeOK
    <2> QED  BY <1>2, <2>1
  <1>6. CASE Stop
    BY <1>6 DEF Stop, Room, Over, TypeOK
  <1>7. CASE Start
    <2>1. UNCHANGED <<request, raced>> /\ Active' \subseteq Active
      BY <1>7 DEF Start, Active, Expired, Running
    <2> QED  BY <1>2, <2>1
  <1>8. CASE LoseRedis \/ RedisReturns \/ Tick
    <2>1. UNCHANGED <<request, raced, task>>
      BY <1>8 DEF LoseRedis, RedisReturns, Tick
    <2> QED  BY <1>2, <2>1 DEF Active
  <1> QED  BY <1>1, <1>3, <1>4, <1>5, <1>6, <1>7, <1>8 DEF Next

LEMMA NextUnchecked ==
  ASSUME TypeOK, Unchecked, Next
  PROVE  Unchecked'
  <1>1. ASSUME NEW r \in Requests, Begin(r) \/ Serve(r)
        PROVE  Unchecked'
    BY <1>1, Moves DEF Unchecked
  <1>2. CASE Stop
    BY <1>2 DEF Stop, Unchecked, Over, Limited
  <1> QED
    BY <1>1, <1>2
       DEF Next, Execute, Run, Finish, LoseLease, Start, LoseRedis, RedisReturns, Tick, Unchecked

LEMMA NextCap ==
  ASSUME TypeOK, Room, Unchecked, CapIsBounded, Next
  PROVE  CapIsBounded'
  <1>1. ASSUME NEW r \in Requests, StoreTask(r)
        PROVE  CapIsBounded'
    <2>1. CASE request[r].kind = "task"
      BY <1>1, <2>1 DEF StoreTask, CapIsBounded
    <2>2. CASE request[r].kind # "task"
      <3>1. request[r].kind = "message" /\ request[r].at = "stores"
        BY <1>1, <2>2, Knows DEF StoreTask, At, Midway, Kinds, Unchecked, Limited
      <3>2. Cardinality(Active) < MaxRunning \/ r \in raced
        BY <3>1 DEF Room
      <3>3. Cardinality(Active) \in Nat
        <4>1. Active \in SUBSET Requests
          BY DEF Active
        <4> QED  BY <4>1, NoMore
      <3>4. ~(Cardinality(Active) >= MaxRunning /\ r \notin raced)
        BY <3>2, <3>3, Constants
      <3> QED  BY <1>1, <2>2, <3>4 DEF StoreTask, CapIsBounded
    <2> QED  BY <2>1, <2>2
  <1> QED
    BY <1>1
       DEF Next, Begin, BeginMessage, BeginTask, BeginUpdate, Arrive, Serve, ReadQuota, CreateQuota,
           UpdateQuota, Unlimited, LimitByRedis, LimitByMemory, CountActive, Enqueue, Dispatch,
           Execute, Run, Finish, LoseLease, Stop, Start, LoseRedis, RedisReturns, Tick, CapIsBounded

CapInv == Room /\ Unchecked /\ CapIsBounded

LEMMA NextCapInv == TypeInv /\ CapInv /\ [Next]_vars => CapInv'
  <1> SUFFICES ASSUME TypeOK, CapInv, [Next]_vars PROVE CapInv'
    BY DEF TypeInv
  <1>1. CASE Next
    BY <1>1, NextRoom, NextUnchecked, NextCap DEF CapInv
  <1>2. CASE UNCHANGED vars
    BY <1>2 DEF vars, CapInv, Room, Unchecked, CapIsBounded, Active
  <1> QED  BY <1>1, <1>2

\* A message's task is stored above the limit of active tasks only if another was
\* stored after the message had counted them (receive_user_message counts in one
\* transaction and stores in another).
THEOREM CapBounded == Spec => []CapIsBounded
  <1>1. Init => CapInv
    BY DEF Init, CapInv, Room, Unchecked, Limited, CapIsBounded
  <1> QED  BY <1>1, NextCapInv, TypeInvariance, PTL DEF Spec, CapInv
-----------------------------------------------------------------------------
(* Who has a task                                                          *)

Attended(r) ==
    \/ r \in direct
    \/ /\ mode = "inline"
       /\ backend = "up" => \/ r \in attended \cup skipped \cup young
                            \/ request[r].at \in {"enqueues", "dispatches"}
    \/ /\ mode = "queue"
       /\ \/ r \in cut
          \/ task[r] = "pending" /\ (r \in item \/ request[r].at = "enqueues")
          \/ task[r] = "running" /\ r \in attended

InHands == \A r \in Active : Attended(r)

LEMMA NextInHands ==
  ASSUME TypeOK, InHands, Next
  PROVE  InHands'
  <1> USE DEF InHands, Attended, Active
  <1>1. ASSUME NEW r \in Requests, Begin(r) \/ Serve(r)
        PROVE  InHands'
    <2>1. \A q \in Requests \ {r} : request'[q] = request[q]
      BY <1>1, Moves
    <2>2. UNCHANGED <<mode, backend, cut>>
      BY <1>1 DEF Begin, BeginMessage, BeginTask, BeginUpdate, Arrive, Serve, ReadQuota, CreateQuota,
                  UpdateQuota, Unlimited, LimitByRedis, LimitByMemory, CountActive, StoreTask,
                  Enqueue, Dispatch
    <2>3. CASE StoreTask(r)
      <3>1. task' = [task EXCEPT ![r] = "pending"] /\ UNCHANGED <<item, attended, skipped, young>>
            /\ direct \subseteq direct'
            /\ (request[r].kind = "task" => r \in direct')
        BY <2>3 DEF StoreTask
      <3>2. request[r].kind # "task" => request'[r].at = "enqueues"
        BY <2>3, Moves DEF Serve
      <3> QED  BY <2>1, <2>2, <3>1, <3>2 DEF TypeOK
    <2>4. CASE Enqueue(r)
      <3>1. request'[r].at = "dispatches" /\ item' = item \cup {r}
            /\ UNCHANGED <<task, attended, skipped, young, direct>>
        BY <2>4, Moves DEF Serve, Enqueue
      <3> QED  BY <2>1, <2>2, <3>1
    <2>5. CASE Dispatch(r)
      <3>1. /\ request[r].at = "dispatches" /\ UNCHANGED <<task, item, skipped, young, direct>>
            /\ attended \subseteq attended' /\ (mode = "inline" /\ r \in Active => r \in attended')
        BY <2>5 DEF Dispatch, At
      <3> QED  BY <2>1, <2>2, <3>1
    <2>6. CASE ~(StoreTask(r) \/ Enqueue(r) \/ Dispatch(r))
      <3>1. UNCHANGED <<task, item, attended, direct, skipped, young>>
        BY <1>1, <2>6 DEF Begin, BeginMessage, BeginTask, BeginUpdate, Arrive, Serve, ReadQuota,
                  CreateQuota, UpdateQuota, Unlimited, LimitByRedis, LimitByMemory, CountActive
      <3>2. request[r].at \notin {"enqueues", "dispatches"}
        BY <1>1, <2>6 DEF Begin, BeginMessage, BeginTask, BeginUpdate, Arrive, NextOne, Serve, At,
                  ReadQuota, CreateQuota, UpdateQuota, Unlimited, LimitByRedis, LimitByMemory, CountActive
      <3> QED  BY <2>1, <2>2, <3>1, <3>2
    <2> QED  BY <2>3, <2>4, <2>5, <2>6
  <1>2. ASSUME NEW r \in Requests, Run(r)
        PROVE  InHands'
    <2>1. /\ task[r] = "pending" /\ task' = [task EXCEPT ![r] = "running"]
          /\ attended' = attended \cup {r}
          /\ item \ {r} \subseteq item'
          /\ UNCHANGED <<mode, backend, request, left>>
      BY <1>2 DEF Run
    <2> QED  BY <2>1 DEF TypeOK
  <1>3. ASSUME NEW r \in Requests, Finish(r)
        PROVE  InHands'
    BY <1>3 DEF Finish, TypeOK
  <1>4. ASSUME NEW r \in Requests, LoseLease(r)
        PROVE  InHands'
    BY <1>4 DEF LoseLease
  <1>5. CASE Stop
    <2>1. \A r \in Requests : request[r].at = "enqueues" => r \in cut'
      BY <1>5 DEF Stop
    <2>2. mode = "queue" => \A r \in Requests : task[r] = "running" /\ r \in attended => r \in attended'
      BY <1>5 DEF Stop, Running
    <2> QED  BY <1>5, <2>1, <2>2 DEF Stop
  <1>6. CASE Start
    <2>1. CASE mode = "queue"
      BY <1>6, <2>1 DEF Start
    <2>2. CASE mode = "inline"
      <3>1. Active' = Active
        BY <1>6 DEF Start, Expired, Running
      <3>2. Active \subseteq attended' \cup skipped' \cup young'
        BY <1>6, <2>2 DEF Start, Waiting, Expired, Running
      <3> HIDE DEF Active
      <3> QED  BY <1>6, <2>2, <3>1, <3>2 DEF Start
    <2> QED  BY <2>1, <2>2 DEF TypeOK
  <1>7. CASE LoseRedis \/ RedisReturns \/ Tick
    BY <1>7 DEF LoseRedis, RedisReturns, Tick
  <1> QED  BY <1>1, <1>2, <1>3, <1>4, <1>5, <1>6, <1>7 DEF Next, Execute

\* While the backend is up a stored task is in somebody's hands, unless it was posted
\* and never dispatched, or the backend stopped before it was queued, or the last
\* start left it (receive_user_message, recover_unfinished_tasks).
THEOREM NobodyForgotten == Spec => []NobodyIsForgotten
  <1>1. Init => InHands
    BY DEF Init, InHands, Active
  <1>2. TypeInv /\ InHands /\ [Next]_vars => InHands'
    BY NextInHands DEF TypeInv, vars, InHands, Attended, Active
  <1>3. InHands => NobodyIsForgotten
    BY DEF InHands, Attended, NobodyIsForgotten, Unattended, Active
  <1> QED  BY <1>1, <1>2, <1>3, TypeInvariance, PTL DEF Spec
-----------------------------------------------------------------------------
(* The limit of a minute                                                   *)

\* The counters of this minute that are still counting: Redis's, and the process's
\* when it has one.
Counting == IF tally.local THEN 2 ELSE 1

\* Of what was let through, at most p are in the counter of Redis, those after the
\* k-th entry are in the bucket, and the others in counters that are gone.
Counted(p, k) ==
    /\ p <= tally.top /\ Len(bucket) - k <= tally.top
    /\ \A i \in (k + 1)..Len(bucket) : bucket[i] >= now - (now % Minute)
    /\ tally.local \/ k = Len(bucket)
    /\ tally.passes <= p + (Len(bucket) - k) + tally.top * (tally.counters - Counting)

LimitsKnown ==
    /\ quota.limit <= tally.top
    /\ \A r \in Requests : request[r].at = "limits" => request[r].limit <= tally.top

RateInv ==
    /\ LimitsKnown
    /\ tally.counters >= Counting
    /\ \E p \in 0..redis.count, k \in 0..Len(bucket) : Counted(p, k)

LEMMA RateTypes ==
  ASSUME TypeOK
  PROVE  /\ redis.count \in Nat /\ quota.limit \in Nat /\ Len(bucket) \in Nat /\ now \in Nat
         /\ tally.passes \in Nat /\ tally.top \in Nat /\ tally.counters \in Nat
         /\ tally.local \in BOOLEAN /\ Counting \in {1, 2}
         /\ bucket \in Seq(Int)
         /\ \A i \in 1..Len(bucket) : bucket[i] \in Int
  BY Constants DEF TypeOK, Counting

\* What the counters that are gone may have let through.
LEMMA Product ==
  ASSUME NEW t \in Nat, NEW u \in Nat, NEW n \in Nat, t <= u
  PROVE  /\ t * n \in Nat /\ t * n <= u * n
         /\ t * (n + 1) = (t * n) + t
  OBVIOUS

\* With the counts at hand, the bound.
LEMMA RateBound ==
  ASSUME TypeOK, RateInv
  PROVE  RateIsBounded
  <1>1. PICK p \in 0..redis.count, k \in 0..Len(bucket) : Counted(p, k)
    BY DEF RateInv
  <1> DEFINE t == tally.top
             n == tally.counters - Counting
             l == Len(bucket) - k
  <1>2. t \in Nat /\ n \in Nat /\ p \in Nat /\ l \in Nat /\ tally.passes \in Nat
        /\ tally.counters = n + Counting
    BY RateTypes DEF RateInv
  <1>3. p <= t /\ l <= t /\ tally.passes <= p + l + (t * n) /\ (tally.local \/ l = 0)
    BY <1>1, RateTypes DEF Counted
  <1> HIDE DEF t, n, l
  <1>4. t * n \in Nat /\ t * (n + 1) = (t * n) + t /\ t * ((n + 1) + 1) = (t * (n + 1)) + t
    BY <1>2, Product
  <1>7. \A gone, b, c \in Nat : tally.passes <= p + l + gone /\ p <= t /\ l <= t
                                    /\ b = gone + t /\ c = b + t
            => tally.passes <= c /\ (l = 0 => tally.passes <= b)
    BY <1>2
  <1>5. CASE tally.local
    <2>1. tally.counters = (n + 1) + 1
      BY <1>2, <1>5 DEF Counting
    <2>2. tally.passes <= t * tally.counters
      BY <1>2, <1>3, <1>4, <2>1, <1>7
    <2> QED  BY <2>2 DEF RateIsBounded, t
  <1>6. CASE ~tally.local
    <2>1. tally.counters = n + 1
      BY <1>2, <1>6 DEF Counting
    <2>2. tally.passes <= t * tally.counters
      BY <1>2, <1>3, <1>4, <1>6, <1>7, <2>1
    <2> QED  BY <2>2 DEF RateIsBounded, t
  <1> QED  BY <1>5, <1>6

\* The limits that requests hold stay below the highest one in use.
LEMMA NextLimitsKnown ==
  ASSUME TypeOK, TypeOK', LimitsKnown, Next
  PROVE  LimitsKnown'
  <1>1. tally.top \in Nat /\ tally'.top \in Nat /\ quota.limit \in Nat
        /\ \A q \in Requests : request[q].at = "limits" => request[q].limit \in Nat
    BY RateTypes, LimiterTyped, Knows DEF TypeOK, Tally
  <1>2. ASSUME tally'.top = tally.top, UNCHANGED quota, NEW r \in Requests, Begin(r) \/ Serve(r)
        PROVE  LimitsKnown'
    <2>1. \A q \in Requests : request'[q].at = "limits" =>
             \/ request[q].at = "limits" /\ request'[q].limit = request[q].limit
             \/ request'[q].limit = quota.limit
      BY <1>2, Moves
    <2> QED  BY <1>1, <1>2, <2>1 DEF LimitsKnown
  <1>3. ASSUME NEW limit \in Nat, NEW r \in Requests, quota' = Row(limit), Begin(r) \/ Serve(r),
               tally' = [tally EXCEPT !.top = Max({@, limit})],
               request'[r].at # "limits"
        PROVE  LimitsKnown'
    <2>1. tally'.top = Max({tally.top, limit})
      BY <1>3, LimiterTyped DEF Tally
    <2>2. tally'.top >= tally.top /\ tally'.top >= limit
      BY <1>1, <2>1, MaxOfTwo
    <2>3. \A q \in Requests : request'[q].at = "limits" => request'[q] = request[q]
      BY <1>3, Moves
    <2>4. quota'.limit = limit
      BY <1>3 DEF Row
    <2> QED  BY <1>1, <2>2, <2>3, <2>4 DEF LimitsKnown
  <1>4. ASSUME NEW r \in Requests, CreateQuota(r)
        PROVE  LimitsKnown'
    <2>1. CASE quota.row
      BY <1>2, <1>4, <2>1 DEF CreateQuota, Serve
    <2>2. CASE ~quota.row
      <3>1. request'[r].at # "limits"
        <4>1. request[r].at \in Midway /\ "asks" \in Midway /\ Then(r, "asks")
          BY <1>4, <2>2 DEF CreateQuota, At, Midway
        <4> QED  BY <4>1, ThenTyped DEF TypeOK
      <3> QED  BY <1>3, <1>4, <2>2, <3>1, Constants DEF CreateQuota, Serve
    <2> QED  BY <2>1, <2>2
  <1>5. ASSUME NEW r \in Requests, UpdateQuota(r)
        PROVE  LimitsKnown'
    <2>1. request'[r].at # "limits"
      BY <1>5 DEF UpdateQuota, Goes, Over, TypeOK
    <2> QED  BY <1>3, <1>5, <2>1, Constants DEF UpdateQuota, Serve
  <1>6. ASSUME NEW r \in Requests, Begin(r) \/ Serve(r), ~CreateQuota(r), ~UpdateQuota(r)
        PROVE  LimitsKnown'
    <2>1. UNCHANGED quota
      BY <1>6 DEF Begin, BeginMessage, BeginTask, BeginUpdate, Arrive, Serve, ReadQuota, Unlimited,
                  LimitByRedis, LimitByMemory, CountActive, StoreTask, Enqueue, Dispatch
    <2>2. tally'.top = tally.top
      BY <1>6, LimiterTyped
         DEF Begin, BeginMessage, BeginTask, BeginUpdate, Arrive, Serve, ReadQuota, Unlimited,
             LimitByRedis, LimitByMemory, CountActive, StoreTask, Enqueue, Dispatch, Tally
    <2> QED  BY <1>2, <1>6, <2>1, <2>2
  <1>7. ASSUME UNCHANGED quota, tally'.top = tally.top,
               \A r \in Requests : request'[r].at = "limits" => request'[r] = request[r]
        PROVE  LimitsKnown'
    BY <1>1, <1>7 DEF LimitsKnown
  <1>8. CASE Stop
    BY <1>7, <1>8, LimiterTyped DEF Stop, Over, Tally
  <1>9. CASE RedisReturns
    BY <1>7, <1>9, LimiterTyped DEF RedisReturns, Tally
  <1>10. CASE Tick
    <2>1. CASE UNCHANGED tally
      BY <1>7, <1>10, <2>1 DEF Tick
    <2>2. CASE ~UNCHANGED tally
      <3> DEFINE S == HeldLimits \cup {quota.limit}
      <3>1. tally'.top = Max(S) /\ UNCHANGED <<quota, request>>
        BY <1>10, <2>2 DEF Tick, HeldLimits
      <3>2. quota.limit \in S /\ \A r \in Requests : request[r].at = "limits" => request[r].limit \in S
        BY DEF HeldLimits
      <3>3. \A x \in S : x <= Max(S)
        BY LimitsInUse
      <3> HIDE DEF S
      <3> QED  BY <3>1, <3>2, <3>3 DEF LimitsKnown
    <2> QED  BY <2>1, <2>2
  <1>11. ASSUME UNCHANGED <<quota, tally, request>>
         PROVE  LimitsKnown'
    BY <1>11 DEF LimitsKnown
  <1> QED
    BY <1>4, <1>5, <1>6, <1>8, <1>9, <1>10, <1>11
       DEF Next, Execute, Run, Finish, LoseLease, Start, LoseRedis

\* Redis counts one more, and lets it through only below the limit.
LEMMA NextRedisCount ==
  ASSUME TypeOK, RateInv, NEW r \in Requests, LimitByRedis(r)
  PROVE  /\ tally'.counters >= Counting'
         /\ \E p \in 0..redis'.count, k \in 0..Len(bucket') : Counted(p, k)'
  <1> DEFINE one == IF Within(redis.count + 1, request[r].limit) THEN 1 ELSE 0
             t == tally.top
             gone == tally.top * (tally.counters - Counting)
  <1>1. PICK p \in 0..redis.count, k \in 0..Len(bucket) : Counted(p, k)
    BY DEF RateInv
  <1>2. redis'.count = redis.count + 1 /\ UNCHANGED <<now, bucket>>
    BY LimiterTyped DEF LimitByRedis, Redis
  <1>3. /\ tally'.passes = tally.passes + one /\ tally'.top = tally.top
        /\ tally'.counters = tally.counters /\ tally'.local = tally.local
    BY LimiterTyped DEF LimitByRedis, Tally
  <1>4. gone' = gone /\ Counting' = Counting /\ tally.counters >= Counting
    BY <1>3 DEF Counting, RateInv
  <1>5. gone \in Nat
    <2>1. tally.counters - Counting \in Nat
      BY <1>4, RateTypes
    <2> QED  BY <2>1, RateTypes, Product
  <1>6. one \in {0, 1} /\ (one = 1 => redis.count + 1 <= t)
    <2>1. request[r].limit \in Nat /\ request[r].limit <= t
      BY Knows DEF LimitByRedis, At, RateInv, LimitsKnown
    <2> QED  BY <1>2, <2>1, RateTypes DEF Within
  <1>7. PICK q \in 0..redis'.count : q = p + one
    BY <1>2, <1>6, RateTypes
  <1> HIDE DEF one, gone
  <1>8. Counted(q, k)'
    <2>1. p + one <= t
      BY <1>1, <1>6, RateTypes DEF Counted
    <2>2. tally.passes + one <= (p + one) + (Len(bucket) - k) + gone
      BY <1>1, <1>5, <1>6, RateTypes DEF Counted, gone
    <2>3. /\ Len(bucket) - k <= t /\ (tally.local \/ k = Len(bucket))
          /\ \A i \in (k + 1)..Len(bucket) : bucket[i] >= now - (now % Minute)
      BY <1>1 DEF Counted
    <2> QED  BY <1>2, <1>3, <1>4, <1>7, <2>1, <2>2, <2>3 DEF Counted, gone
  <1> QED  BY <1>2, <1>3, <1>4, <1>8

\* The process drops what is older than a minute, none of which is of this minute
\* of the clock, and lets one through only below the limit.
LEMMA NextMemoryCount ==
  ASSUME TypeOK, RateInv, NEW r \in Requests, LimitByMemory(r)
  PROVE  /\ tally'.counters >= Counting'
         /\ \E p \in 0..redis'.count, k \in 0..Len(bucket') : Counted(p, k)'
  <1> DEFINE allowed == Len(Recent) < request[r].limit
             one == IF allowed THEN 1 ELSE 0
             own == IF tally.local THEN 0 ELSE 1
             t == tally.top
             start == now - (now % Minute)
             gone == tally.top * (tally.counters - Counting)
  <1>1. PICK p \in 0..redis.count, k \in 0..Len(bucket) : Counted(p, k)
    BY DEF RateInv
  <1>2. PICK s \in 0..Len(bucket) :
            /\ Recent \in Seq(0..now) /\ Len(Recent) = Len(bucket) - s
            /\ \A i \in 1..s : bucket[i] < now - Minute
            /\ \A i \in 1..Len(Recent) : Recent[i] = bucket[s + i]
    BY RecentSound
  <1>3. start \in Int /\ start >= now - Minute /\ start <= now
    <2>1. now % Minute \in 0..(Minute - 1)
      BY RateTypes, Constants
    <2> QED  BY <2>1, RateTypes, Constants
  <1>4. /\ p <= t /\ Len(bucket) - k <= t
        /\ \A i \in (k + 1)..Len(bucket) : bucket[i] >= start
        /\ tally.local \/ k = Len(bucket)
        /\ tally.passes <= p + (Len(bucket) - k) + gone
    BY <1>1 DEF Counted
  <1>5. s <= k
    <2>1. CASE s \in (k + 1)..Len(bucket)
      <3>1. s \in 1..Len(bucket) /\ s \in 1..s
        BY <2>1, RateTypes
      <3>2. bucket[s] >= start /\ bucket[s] < now - Minute
        BY <1>2, <1>4, <2>1, <3>1
      <3>3. bucket[s] \in Int /\ now \in Int /\ Minute \in Int
        BY <3>1, RateTypes, Constants
      <3> HIDE DEF start
      <3> QED  BY <1>3, <3>2, <3>3
    <2> QED  BY <2>1, RateTypes
  <1>6. tally.counters >= Counting /\ tally.counters \in Nat /\ Counting \in {1, 2}
    BY RateTypes DEF RateInv
  <1>7. gone \in Nat
    <2>1. tally.counters - Counting \in Nat
      BY <1>6
    <2> QED  BY <2>1, RateTypes, Product
  <1>8. /\ redis'.count \in Nat /\ redis.count <= redis'.count /\ UNCHANGED now
        /\ bucket' = IF allowed THEN Append(Recent, now) ELSE Recent
    <2>1. redis'.count = redis.count \/ redis'.count = redis.count + 1
      BY LimiterTyped DEF LimitByMemory, Redis
    <2> QED  BY <2>1, RateTypes DEF LimitByMemory
  <1>9. /\ tally'.passes = tally.passes + one /\ tally'.top = t
        /\ tally'.counters = tally.counters + own /\ tally'.local = TRUE
        /\ own \in {0, 1}
    <2> DEFINE passes == tally.passes + one
               counters == tally.counters + own
    <2>1. tally' = [tally EXCEPT !.passes = passes, !.counters = counters, !.local = TRUE]
      BY DEF LimitByMemory
    <2> HIDE DEF passes, counters
    <2>2. /\ tally'.passes = passes /\ tally'.top = tally.top
          /\ tally'.counters = counters /\ tally'.local = TRUE
      BY <2>1, LimiterTyped DEF Tally
    <2> QED  BY <2>2 DEF passes, counters
  <1>10. tally'.counters - Counting' = tally.counters - Counting /\ Counting' = 2
    BY <1>6, <1>9, RateTypes DEF Counting
  <1>11. Len(bucket) - k \in 0..Len(Recent) /\ Len(bucket) - k <= t
    BY <1>2, <1>4, <1>5, RateTypes
  <1>12. one = 1 => Len(Recent) + 1 <= t
    <2>1. request[r].limit \in Nat /\ request[r].limit <= t
      BY Knows DEF LimitByMemory, At, RateInv, LimitsKnown
    <2> QED  BY <1>2, <2>1, RateTypes
  <1>13. /\ Len(bucket') = Len(Recent) + one /\ one \in {0, 1}
         /\ \A i \in 1..Len(Recent) : bucket'[i] = Recent[i]
         /\ one = 1 => bucket'[Len(Recent) + 1] = now
    <2> DEFINE S == 0..now
    <2>1. Recent \in Seq(S) /\ Len(Recent) \in Nat
      BY <1>2
    <2> HIDE DEF S
    <2>2. CASE allowed
      <3>1. bucket' = Append(Recent, now) /\ one = 1
        BY <1>8, <2>2
      <3> QED  BY <2>1, <3>1
    <2>3. CASE ~allowed
      <3>1. bucket' = Recent /\ one = 0
        BY <1>8, <2>3
      <3> QED  BY <2>1, <3>1
    <2> QED  BY <2>2, <2>3
  <1> HIDE DEF allowed, one, own, gone, start
  <1>14. PICK q \in 0..redis'.count : q = p
    BY <1>8, RateTypes
  <1>15. PICK h \in 0..Len(bucket') : h = k - s
    BY <1>2, <1>5, <1>11, <1>13, RateTypes
  <1>16. Len(bucket') - h = (Len(bucket) - k) + one
    BY <1>2, <1>13, <1>15, RateTypes
  <1>17. Counted(q, h)'
    <2>1. q <= t /\ Len(bucket') - h <= t
      <3>1. q <= t
        BY <1>4, <1>14
      <3>2. one \in {0, 1} /\ Len(Recent) \in Int /\ Len(bucket) - k \in Int /\ t \in Int
        BY <1>2, <1>11, <1>13, RateTypes
      <3>3. (Len(bucket) - k) + one <= t
        BY <1>11, <1>12, <3>2
      <3> QED  BY <1>16, <3>1, <3>3
    <2>2. \A i \in (h + 1)..Len(bucket') : bucket'[i] >= start
      <3> SUFFICES ASSUME NEW i \in (h + 1)..Len(bucket') PROVE bucket'[i] >= start
        OBVIOUS
      <3>1. CASE i <= Len(Recent)
        <4>1. bucket'[i] = bucket[s + i] /\ s + i \in (k + 1)..Len(bucket)
          <5>1. i \in Nat /\ i > k - s /\ i >= 1 /\ i <= Len(bucket) - s /\ s \in Nat /\ k \in Nat
            <6>1. Len(bucket) \in Nat /\ s \in Nat /\ k \in Nat /\ Len(bucket') \in Int /\ h \in Int
              BY <1>2, <1>13, <1>15, RateTypes
            <6>2. i \in Int /\ i >= h + 1 /\ h = k - s /\ i <= Len(bucket) - s
              BY <1>2, <1>15, <3>1, <6>1
            <6> QED  BY <1>5, <6>1, <6>2
          <5>2. s + i \in (k + 1)..Len(bucket) /\ i \in 1..Len(Recent)
            BY <1>2, <3>1, <5>1, RateTypes
          <5> QED  BY <1>2, <1>13, <5>2
        <4> QED  BY <1>4, <4>1
      <3>2. CASE i = Len(Recent) + 1 /\ one = 1
        BY <1>3, <1>13, <3>2
      <3> QED  BY <1>2, <1>13, <1>15, <3>1, <3>2, RateTypes
    <2>3. tally'.passes <= q + (Len(bucket') - h) + gone
      <3> DEFINE m == Len(bucket) - k
      <3>1. m \in Int
        BY <1>1, RateTypes
      <3>2. q \in Int /\ one \in Int /\ gone \in Int /\ tally.passes \in Int
        BY <1>7, <1>13, <1>14, RateTypes
      <3>3. tally.passes <= q + m + gone
        BY <1>4, <1>14
      <3>4. tally'.passes = tally.passes + one /\ Len(bucket') - h = m + one
        BY <1>9, <1>16
      <3> HIDE DEF m
      <3> QED  BY <3>1, <3>2, <3>3, <3>4
    <2>4. tally'.top * (tally'.counters - Counting') = gone
      BY <1>9, <1>10 DEF gone
    <2> QED  BY <1>8, <1>9, <2>1, <2>2, <2>3, <2>4 DEF Counted, start
  <1>18. tally'.counters >= Counting'
    <2>1. /\ tally'.counters \in Int /\ Counting' \in Int
          /\ tally.counters \in Int /\ Counting \in Int
      BY <1>6, <1>9, <1>10
    <2> QED  BY <1>6, <1>10, <2>1
  <1> QED  BY <1>17, <1>18

\* A higher limit in use allows for all that was let through.
LEMMA NextTop ==
  ASSUME TypeOK, RateInv, NEW limit \in Nat, tally' = [tally EXCEPT !.top = Max({@, limit})],
         UNCHANGED <<now, redis, bucket>>
  PROVE  /\ tally'.counters >= Counting'
         /\ \E p \in 0..redis'.count, k \in 0..Len(bucket') : Counted(p, k)'
  <1> DEFINE t == tally.top
             u == Max({tally.top, limit})
             n == tally.counters - Counting
  <1>1. PICK p \in 0..redis.count, k \in 0..Len(bucket) : Counted(p, k)
    BY DEF RateInv
  <1>2. t \in Nat /\ u \in Nat /\ t <= u
    BY RateTypes, MaxOfTwo
  <1>3. tally'.top = u /\ tally'.passes = tally.passes /\ tally'.counters = tally.counters
        /\ tally'.local = tally.local
    <2> HIDE DEF u
    <2>1. tally' = [tally EXCEPT !.top = u]
      BY DEF u
    <2> QED  BY <2>1, LimiterTyped DEF Tally
  <1>4. Counting' = Counting /\ n \in Nat /\ tally.counters >= Counting
    BY <1>3, RateTypes DEF Counting, RateInv
  <1> HIDE DEF u, n
  <1>5. t * n \in Nat /\ u * n \in Nat /\ t * n <= u * n
    BY <1>2, <1>4, Product
  <1>6. Counted(p, k)'
    <2>1. p <= t /\ Len(bucket) - k <= t /\ tally.passes <= p + (Len(bucket) - k) + (t * n)
      BY <1>1 DEF Counted, n
    <2> DEFINE old == t * n
               new == u * n
    <2>2. tally.passes <= p + (Len(bucket) - k) + new
      <3>1. old \in Nat /\ new \in Nat /\ old <= new /\ tally.passes <= p + (Len(bucket) - k) + old
        BY <1>5, <2>1
      <3> HIDE DEF old, new
      <3> QED  BY <3>1, RateTypes
    <2>3. p <= u /\ Len(bucket) - k <= u
      BY <1>2, <2>1, RateTypes
    <2>4. tally'.top * (tally'.counters - Counting') = new
      BY <1>3, <1>4 DEF n
    <2> HIDE DEF new
    <2> QED  BY <1>1, <1>3, <1>4, <2>2, <2>3, <2>4 DEF Counted
  <1> QED  BY <1>3, <1>4, <1>6

\* A stop takes the process's counter with it.
LEMMA NextStopCount ==
  ASSUME TypeOK, RateInv, Stop
  PROVE  /\ tally'.counters >= Counting'
         /\ \E p \in 0..redis'.count, k \in 0..Len(bucket') : Counted(p, k)'
  <1> DEFINE t == tally.top
             n == tally.counters - Counting
             l == Len(bucket)
  <1>1. PICK p \in 0..redis.count, k \in 0..Len(bucket) : Counted(p, k)
    BY DEF RateInv
  <1>2. /\ tally'.top = t /\ tally'.passes = tally.passes /\ tally'.counters = tally.counters
        /\ tally'.local = FALSE /\ UNCHANGED <<now, redis>> /\ bucket' = <<>>
    BY LimiterTyped DEF Stop, Tally
  <1>3. Counting' = 1 /\ n \in Nat /\ tally.counters >= Counting /\ t \in Nat
    BY <1>2, RateTypes DEF Counting, RateInv
  <1>4. p <= t /\ l - k <= t /\ tally.passes <= p + (l - k) + (t * n) /\ (tally.local \/ k = l)
    BY <1>1 DEF Counted
  <1>5. t * n \in Nat /\ t * (n + 1) = (t * n) + t
    BY <1>3, Product
  <1> DEFINE m == tally.counters - 1
             gone == t * n
             next == t * m
  <1>6. gone \in Nat /\ next \in Nat /\ (tally.local => next = gone + t) /\ (~tally.local => next = gone)
    <2>1. m = IF tally.local THEN n + 1 ELSE n
      BY RateTypes DEF Counting
    <2> QED  BY <1>3, <1>5, <2>1
  <1>7. tally.passes <= p + gone + (l - k)
    BY <1>4, <1>6, RateTypes
  <1> HIDE DEF gone, next
  <1>8. tally.passes <= p + next
    <2>1. p \in Nat /\ l \in Nat /\ k \in Nat /\ tally.passes \in Nat /\ t \in Nat
      BY RateTypes
    <2> HIDE DEF t, l
    <2>2. CASE tally.local
      BY <1>4, <1>6, <1>7, <2>1, <2>2
    <2>3. CASE ~tally.local
      BY <1>4, <1>6, <1>7, <2>1, <2>3
    <2> QED  BY <2>2, <2>3
  <1>9. 0 \in 0..Len(bucket') /\ Len(bucket') = 0
    BY <1>2
  <1>10. Counted(p, 0)'
    <2>1. tally'.top * (tally'.counters - Counting') = next
      BY <1>2, <1>3 DEF next
    <2>2. tally'.passes <= p + (Len(bucket') - 0) + next
      BY <1>2, <1>6, <1>8, <1>9, RateTypes
    <2>3. Len(bucket') - 0 <= tally'.top /\ p <= tally'.top
      BY <1>2, <1>3, <1>4, <1>9
    <2> QED  BY <1>9, <2>1, <2>2, <2>3 DEF Counted
  <1> QED  BY <1>2, <1>3, <1>9, <1>10, RateTypes

LEMMA NextCounted ==
  ASSUME TypeOK, RateInv, Next
  PROVE  /\ tally'.counters >= Counting'
         /\ \E p \in 0..redis'.count, k \in 0..Len(bucket') : Counted(p, k)'
  <1> DEFINE Goal == /\ tally'.counters >= Counting'
                     /\ \E p \in 0..redis'.count, k \in 0..Len(bucket') : Counted(p, k)'
  <1>1. PICK p \in 0..redis.count, k \in 0..Len(bucket) : Counted(p, k)
    BY DEF RateInv
  <1>2. ASSUME UNCHANGED <<now, bucket, tally>>, redis'.count = redis.count
        PROVE  Goal
    <2>1. Counted(p, k)' /\ Counting' = Counting
      BY <1>1, <1>2 DEF Counted, Counting
    <2> QED  BY <1>2, <2>1 DEF RateInv
  <1>3. ASSUME NEW r \in Requests, Begin(r) \/ Serve(r) \/ Execute(r)
        PROVE  Goal
    <2>1. CASE LimitByRedis(r)
      BY <2>1, NextRedisCount
    <2>2. CASE LimitByMemory(r)
      BY <2>2, NextMemoryCount
    <2>3. CASE CreateQuota(r)
      BY <1>2, <2>3, NextTop, Constants DEF CreateQuota
    <2>4. CASE UpdateQuota(r)
      BY <2>4, NextTop, Constants DEF UpdateQuota
    <2>5. CASE ~(LimitByRedis(r) \/ LimitByMemory(r) \/ CreateQuota(r) \/ UpdateQuota(r))
      <3>1. UNCHANGED <<now, bucket, tally, redis>>
        BY <1>3, <2>5 DEF Begin, BeginMessage, BeginTask, BeginUpdate, Arrive, Serve, ReadQuota,
                          Unlimited, CountActive, StoreTask, Enqueue, Dispatch, Execute, Run,
                          Finish, LoseLease
      <3> QED  BY <1>2, <3>1
    <2> QED  BY <2>1, <2>2, <2>3, <2>4, <2>5
  <1>4. CASE Stop
    BY <1>4, NextStopCount
  <1>5. CASE Start
    BY <1>2, <1>5 DEF Start
  <1>6. CASE LoseRedis
    BY <1>2, <1>6, LimiterTyped DEF LoseRedis, Redis
  <1>7. CASE RedisReturns
    <2>1. CASE redis' = [redis EXCEPT !.up = TRUE] /\ UNCHANGED tally
      BY <1>2, <1>7, <2>1, LimiterTyped DEF RedisReturns, Redis
    <2>2. CASE redis' = [up |-> TRUE, count |-> 0] /\ tally' = [tally EXCEPT !.counters = @ + 1]
      <3> DEFINE t == tally.top
                 n == tally.counters - Counting
                 gone == t * n
                 next == t * (n + 1)
      <3>1. /\ tally'.top = t /\ tally'.passes = tally.passes /\ tally'.counters = tally.counters + 1
            /\ tally'.local = tally.local /\ UNCHANGED <<now, bucket>> /\ redis'.count = 0
        BY <1>7, <2>2, LimiterTyped DEF RedisReturns, Tally
      <3>2. Counting' = Counting /\ n \in Nat /\ t \in Nat /\ tally.counters >= Counting
            /\ tally'.counters - Counting' = n + 1
        <4>1. Counting' = Counting
          BY <3>1 DEF Counting
        <4>2. tally.counters >= Counting
          BY DEF RateInv
        <4> QED  BY <3>1, <4>1, <4>2, RateTypes
      <3>3. gone \in Nat /\ next = gone + t
        BY <3>2, Product
      <3>4. p <= t /\ Len(bucket) - k <= t /\ tally.passes <= p + (Len(bucket) - k) + gone
        BY <1>1 DEF Counted
      <3> HIDE DEF gone, next
      <3>5. tally.passes <= 0 + (Len(bucket) - k) + next
        <4> HIDE DEF t, n
        <4>1. p \in Nat /\ k \in Nat /\ Len(bucket) \in Nat /\ tally.passes \in Nat /\ t \in Nat
          BY <3>2, RateTypes
        <4> QED  BY <3>3, <3>4, <4>1
      <3>6. Counted(0, k)'
        <4>1. tally'.top * (tally'.counters - Counting') = next
          BY <3>1, <3>2 DEF next
        <4>2. 0 <= t
          BY <3>2
        <4> QED  BY <1>1, <3>1, <3>4, <3>5, <4>1, <4>2 DEF Counted
      <3>7. tally'.counters >= Counting'
        BY <3>1, <3>2, RateTypes
      <3> QED  BY <3>1, <3>6, <3>7
    <2> QED  BY <1>7, <2>1, <2>2 DEF RedisReturns
  <1>8. CASE Tick
    <2>1. CASE now' % Minute # 0
      <3>1. now' = now + 1 /\ UNCHANGED <<redis, tally, bucket>>
        BY <1>8, <2>1 DEF Tick
      <3>2. now' - (now' % Minute) = now - (now % Minute)
        <4>1. (now + 1) % Minute = (now % Minute) + 1
          BY <2>1, <3>1, NextRemainder, RateTypes, Constants
        <4>2. now % Minute \in Int
          BY RateTypes, Constants
        <4> QED  BY <3>1, <4>1, <4>2, RateTypes
      <3>3. Counted(p, k)' /\ Counting' = Counting
        BY <1>1, <3>1, <3>2 DEF Counted, Counting
      <3> QED  BY <3>1, <3>3 DEF RateInv
    <2>2. CASE now' % Minute = 0
      <3> DEFINE highest == Max(HeldLimits \cup {quota.limit})
                 l == Len(bucket)
      <3>1. /\ redis' = [redis EXCEPT !.count = 0] /\ UNCHANGED bucket
            /\ tally' = [passes |-> 0, top |-> highest, counters |-> 1, local |-> FALSE]
        BY <1>8, <2>2 DEF Tick, HeldLimits
      <3>2. highest \in Nat
        BY LimitsInUse
      <3> HIDE DEF highest
      <3>3. redis'.count = 0 /\ tally'.passes = 0 /\ tally'.top = highest /\ tally'.counters = 1
            /\ tally'.local = FALSE /\ Counting' = 1
        BY <3>1, LimiterTyped DEF Redis, Counting
      <3>4. l \in Nat /\ l - l = 0 /\ (l + 1)..l = {}
        BY RateTypes
      <3>5. highest * (1 - 1) = 0
        BY <3>2
      <3>6. \E h \in 0..Len(bucket') : Counted(0, h)'
        <4>1. PICK h \in 0..Len(bucket') : h = l
          BY <3>1, <3>4
        <4>2. Counted(0, h)'
          BY <3>1, <3>2, <3>3, <3>4, <3>5, <4>1 DEF Counted
        <4> QED  BY <4>2
      <3> QED  BY <3>3, <3>6
    <2> QED  BY <2>1, <2>2
  <1> QED  BY <1>3, <1>4, <1>5, <1>6, <1>7, <1>8 DEF Next

LEMMA InitRateInv == Init => RateInv
  <1> SUFFICES ASSUME Init PROVE RateInv
    OBVIOUS
  <1>1. TypeOK
    BY InitTypeOK
  <1>2. redis.count = 0 /\ Len(bucket) = 0 /\ tally.passes = 0 /\ tally.top = quota.limit
        /\ tally.counters = 1 /\ tally.local = FALSE /\ Counting = 1
    BY DEF Init, Counting
  <1>3. quota.limit \in Nat /\ quota.limit * (1 - 1) = 0
    BY <1>1, RateTypes
  <1>4. Counted(0, 0)
    BY <1>2, <1>3 DEF Counted
  <1>5. LimitsKnown
    BY <1>2, <1>3 DEF Init, LimitsKnown
  <1> QED  BY <1>2, <1>4, <1>5 DEF RateInv

\* In any minute the limiter lets through no more than the highest limit in use for
\* each counter it had (check_rate_limit, _check_rate_limit_memory).
THEOREM RateBounded == Spec => []RateIsBounded
  <1>1. TypeInv /\ RateInv /\ [Next]_vars => RateInv'
    <2> SUFFICES ASSUME TypeInv, RateInv, [Next]_vars PROVE RateInv'
      OBVIOUS
    <2>1. TypeOK /\ TypeOK'
      BY NextTypeInv DEF TypeInv
    <2>2. CASE Next
      BY <2>1, <2>2, NextLimitsKnown, NextCounted DEF RateInv
    <2>3. CASE UNCHANGED vars
      BY <2>3 DEF vars, RateInv, LimitsKnown, Counted, Counting
    <2> QED  BY <2>2, <2>3
  <1>2. TypeInv /\ RateInv => RateIsBounded
    BY RateBound DEF TypeInv
  <1> QED  BY <1>1, <1>2, InitRateInv, TypeInvariance, PTL DEF Spec
=============================================================================
