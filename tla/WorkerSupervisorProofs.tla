----------------------- MODULE WorkerSupervisorProofs -----------------------
(***************************************************************************)
(* For any numbers of workers and sources, any controls and any admitted   *)
(* policy: the pool counts its leases, running work fits the configured    *)
(* sessions and memory, no child outlives its lease, and success is never  *)
(* reported for a run that was stopped before its child existed.           *)
(***************************************************************************)
EXTENDS WorkerSupervisor, FiniteSetTheorems, TLAPS

\* Which control points hold a lease.
Holding == {"spawn", "check", "wait", "read", "reap", "release", "opening", "open"}

HoldsLease == \A a \in Actors : a \in lease <=> pc[a] \in Holding

\* What a worker's child can be where its call stands.
ChildAt(w) ==
  /\ pc[w] \in {"admit", "spawn"} => child[w] = "none"
  /\ pc[w] \in {"check", "wait"} => child[w] \in {"running", "succeeded", "failed"}
  /\ pc[w] = "read" => child[w] \in {"succeeded", "failed"}
  /\ pc[w] = "reap" => child[w] \in Running \cup {"succeeded", "failed", "dead"}
  /\ pc[w] \in {"idle", "release"} => child[w] \in {"none", "reaped"}

\* A run that was stopped too early never gets past its first checkpoint, and
\* a success was collected from an exited child that can write no more.
Verdict(w) ==
  /\ w \in tooLate => ControlOf[w] \in stopped /\ pc[w] \notin {"wait", "read"}
  /\ pc[w] \in {"admit", "spawn"} => w \notin tooLate
  /\ result[w] = "ok" => w \notin tooLate \cup oversize /\ child[w] \notin Running
  /\ pc[w] \in {"admit", "spawn", "check", "wait", "read"} => result[w] = "none"

IInv ==
  /\ TypeOK
  /\ LeasesCounted
  /\ HoldsLease
  /\ \A w \in Workers : ChildAt(w) /\ Verdict(w)

-----------------------------------------------------------------------------
\* The limit of a valid policy respects both of its bounds.
LEMMA LimitBounds ==
  ASSUME NEW p \in PolicyType, Valid(p)
  PROVE  /\ p.sessionMemory \in Nat \ {0}
         /\ Limit(p) \in Nat /\ Limit(p) >= 1
         /\ Limit(p) <= p.maxSessions
         /\ \A n \in Nat : n <= Limit(p) => n * p.sessionMemory <= p.aggregateMemory
<1> DEFINE m == p.sessionMemory
           a == p.aggregateMemory
           q == a \div m
<1>1. m \in Nat \ {0} /\ a \in Nat /\ p.maxSessions \in Nat \ {0} /\ m <= a
  BY DEF Valid, CeilingSum, PolicyType, Ceilings
<1> HIDE DEF m, a
<1>2. q \in Nat /\ q * m <= a /\ q >= 1
  BY <1>1
<1>3. \A n \in Nat : n <= q => n * m <= q * m
  BY <1>1, <1>2
<1>4. Limit(p) \in Nat /\ Limit(p) >= 1 /\ Limit(p) <= p.maxSessions /\ Limit(p) <= q
  BY <1>1, <1>2 DEF Limit, m, a
<1> HIDE DEF q
<1>5. ASSUME NEW n \in Nat, n <= Limit(p) PROVE n * m <= a
  <2>1. n <= q
    BY <1>2, <1>4, <1>5
  <2>2. n * m <= q * m /\ n * m \in Nat /\ q * m \in Nat
    BY <2>1, <1>1, <1>2, <1>3
  <2>3. QED
    BY <2>2, <1>1, <1>2
<1>6. QED
  BY <1>1, <1>4, <1>5 DEF m, a

\* A child's own policy is valid, admits one session, and as many of them as
\* the host may run fit its aggregate.
THEOREM ChildPolicyFits ==
  ASSUME NEW p \in PolicyType, Valid(p)
  PROVE  /\ Valid(ChildPolicy(p)) /\ Limit(ChildPolicy(p)) = 1
         /\ Limit(p) * ChildPolicy(p).aggregateMemory <= p.aggregateMemory
<1>1. /\ p.sessionMemory \in Nat \ {0}
      /\ Limit(p) \in Nat
      /\ Limit(p) * p.sessionMemory <= p.aggregateMemory
  BY LimitBounds
<1>2. /\ ChildPolicy(p).aggregateMemory = p.sessionMemory
      /\ ChildPolicy(p).sessionMemory = p.sessionMemory
      /\ ChildPolicy(p).maxSessions = 1
      /\ ChildPolicy(p).framePixels = p.framePixels
      /\ ChildPolicy(p).codecThreads = p.codecThreads
      /\ ChildPolicy(p).ceiling = p.ceiling
  BY DEF ChildPolicy, PolicyType
<1>3. p.sessionMemory \div p.sessionMemory = 1
  BY <1>1
<1>4. Limit(ChildPolicy(p)) = 1
  BY <1>2, <1>3 DEF Limit
<1>5. Valid(ChildPolicy(p))
  BY <1>1, <1>2 DEF Valid
<1>6. QED
  BY <1>1, <1>2, <1>4, <1>5

-----------------------------------------------------------------------------
LEMMA ActorsFinite == IsFiniteSet(Actors) /\ Workers \subseteq Actors /\ Sources \subseteq Actors
BY FiniteAssumption, FS_Union DEF Actors

LEMMA InitIInv == Init => IInv
<1> SUFFICES ASSUME Init PROVE IInv
  OBVIOUS
<1>1. policy \in PolicyType /\ Valid(policy) /\ sessions = 0
  BY PolicyAssumption DEF Init, RuntimeInit
<1>2. sessions \in 0..Limit(policy)
  BY <1>1, LimitBounds
<1>3. TypeOK
  BY <1>1, <1>2, ActorsFinite DEF Init, TypeOK, WorkerPc, SourcePc, ChildStates, Results
<1>4. LeasesCounted
  BY <1>1, LimitBounds, FS_EmptySet DEF Init, LeasesCounted
<1>5. QED
  BY <1>3, <1>4 DEF Init, IInv, HoldsLease, Holding, ChildAt, Verdict, Actors

\* The three ways a step treats the pool keep its count.
LEMMA PoolStep ==
  ASSUME TypeOK, LeasesCounted
  PROVE  /\ UNCHANGED pool => LeasesCounted' /\ sessions' \in 0..Limit(policy')
         /\ \A a \in Actors \ lease :
              Admit /\ lease' = lease \cup {a} /\ UNCHANGED policy
              => LeasesCounted' /\ sessions' \in 0..Limit(policy')
         /\ \A a \in lease :
              Release /\ lease' = lease \ {a} /\ UNCHANGED policy
              => LeasesCounted' /\ sessions' \in 0..Limit(policy')
<1>1. IsFiniteSet(lease) /\ Cardinality(lease) = sessions /\ sessions \in Nat
      /\ Limit(policy) \in Nat
  BY ActorsFinite, FS_Subset, LimitBounds DEF TypeOK, LeasesCounted
<1>2. UNCHANGED pool => LeasesCounted' /\ sessions' \in 0..Limit(policy')
  BY DEF pool, LeasesCounted, TypeOK
<1>3. ASSUME NEW a \in Actors \ lease, Admit, lease' = lease \cup {a}, UNCHANGED policy
      PROVE  LeasesCounted' /\ sessions' \in 0..Limit(policy')
  BY <1>1, <1>3, FS_AddElement DEF LeasesCounted, Admit, Busy
<1>4. ASSUME NEW a \in lease, Release, lease' = lease \ {a}, UNCHANGED policy
      PROVE  LeasesCounted' /\ sessions' \in 0..Limit(policy')
  <2>1. sessions # 0
    BY <1>1, <1>4, FS_EmptySet
  <2>2. sessions' = sessions - 1 /\ Cardinality(lease') = sessions - 1
    BY <1>1, <1>4, <2>1, FS_RemoveElement DEF Release
  <2>3. sessions \in 0..Limit(policy)
    BY DEF TypeOK
  <2>4. QED
    BY <1>1, <1>4, <2>1, <2>2, <2>3 DEF LeasesCounted
<1>5. QED
  BY <1>2, <1>3, <1>4

LEMMA StepIInv == IInv /\ [Next]_vars => IInv'
<1> SUFFICES ASSUME IInv, [Next]_vars PROVE IInv'
  OBVIOUS
<1> USE ActorAssumption, ControlAssumption
    DEF IInv, TypeOK, Holding, HoldsLease, ChildAt, Verdict, Running, Actors,
        WorkerPc, SourcePc, ChildStates, Results
<1>1. CASE UNCHANGED vars
  BY <1>1, PoolStep DEF vars, pool
<1>2. ASSUME NEW c \in Controls, Stop(c) PROVE IInv'
  BY <1>2, PoolStep DEF Stop, pool
<1>3. ASSUME NEW w \in Workers, Call(w) PROVE IInv'
  BY <1>3, PoolStep DEF Call, Goto, pool, Stopped
<1>4. ASSUME NEW w \in Workers, Reserve(w) PROVE IInv'
  <2>1. w \in Actors \ lease
    BY <1>4 DEF Reserve
  <2>2. CASE Busy
    BY <1>4, <2>2, PoolStep DEF Reserve, Leave, Goto, pool
  <2>3. CASE ~Busy
    <3>1. LeasesCounted' /\ sessions' \in 0..Limit(policy')
      BY <1>4, <2>1, <2>3, PoolStep DEF Reserve
    <3>2. QED
      BY <1>4, <2>3, <3>1 DEF Reserve, Goto
  <2>4. QED
    BY <2>2, <2>3
<1>5. ASSUME NEW w \in Workers, Spawn(w) PROVE IInv'
  BY <1>5, PoolStep DEF Spawn, Leave, Goto, pool
<1>6. ASSUME NEW w \in Workers, Checkpoint(w) PROVE IInv'
  BY <1>6, PoolStep DEF Checkpoint, Leave, Goto, pool, Stopped
<1>7. ASSUME NEW w \in Workers, TryWait(w) PROVE IInv'
  BY <1>7, PoolStep DEF TryWait, Leave, Goto, pool
<1>8. ASSUME NEW w \in Workers, ReadOutput(w) PROVE IInv'
  BY <1>8, PoolStep DEF ReadOutput, Leave, Goto, pool
<1>9. ASSUME NEW w \in Workers, Kill(w) PROVE IInv'
  BY <1>9, PoolStep DEF Kill, pool
<1>10. ASSUME NEW w \in Workers, Wait(w) PROVE IInv'
  BY <1>10, PoolStep DEF Wait, Goto, pool
<1>11. ASSUME NEW a \in Actors, ReleaseLease(a) PROVE IInv'
  <2>1. a \in lease
    BY <1>11 DEF ReleaseLease
  <2>2. LeasesCounted' /\ sessions' \in 0..Limit(policy')
    BY <1>11, <2>1, PoolStep DEF ReleaseLease
  <2>3. QED
    BY <1>11, <2>2 DEF ReleaseLease, Goto
<1>12. ASSUME NEW s \in Sources, OpenSource(s) PROVE IInv'
  BY <1>12, PoolStep DEF OpenSource, Goto, pool
<1>13. ASSUME NEW s \in Sources, ReserveSource(s) PROVE IInv'
  <2>1. s \in Actors \ lease
    BY <1>13 DEF ReserveSource
  <2>2. LeasesCounted' /\ sessions' \in 0..Limit(policy')
    BY <1>13, <2>1, PoolStep DEF ReserveSource, pool
  <2>3. QED
    BY <1>13, <2>2 DEF ReserveSource, Goto
<1>14. ASSUME NEW s \in Sources, OpenEnds(s) PROVE IInv'
  BY <1>14, PoolStep DEF OpenEnds, Goto, pool
<1>15. ASSUME NEW s \in Sources, CloseSource(s) PROVE IInv'
  BY <1>15, PoolStep DEF CloseSource, Goto, pool
<1>16. ASSUME NEW w \in Workers, ChildStep(w) \/ Expire(w) PROVE IInv'
  BY <1>16, PoolStep DEF ChildStep, ChildExits, ChildWrites, ChildDies, Expire, pool
<1> QED
  BY <1>1, <1>2, <1>3, <1>4, <1>5, <1>6, <1>7, <1>8, <1>9, <1>10, <1>11, <1>12,
     <1>13, <1>14, <1>15, <1>16
  DEF Next, RunStep, OpenStep

\* The strengthening holds in every reachable state.
THEOREM Invariance == Spec => []IInv
<1>1. QED
  BY InitIInv, StepIInv, PTL DEF Spec

-----------------------------------------------------------------------------
\* Every variable keeps its type; the pool never exceeds its limit.
THEOREM TypeCorrect == Spec => []TypeOK
<1>1. IInv => TypeOK
  BY DEF IInv
<1>2. QED
  BY <1>1, Invariance, PTL

\* The session count is the number of leases alive, on every path, and within the limit.
THEOREM NoLeakedLease == Spec => []LeasesCounted
<1>1. IInv => LeasesCounted
  BY DEF IInv
<1>2. QED
  BY <1>1, Invariance, PTL

\* Work in progress fits the configured sessions and the aggregate memory.
THEOREM WorkFits == Spec => []WorkWithinReservations
<1>1. IInv => WorkWithinReservations
  <2> SUFFICES ASSUME IInv PROVE WorkWithinReservations
    OBVIOUS
  <2>1. Working \subseteq lease
    BY ActorsFinite DEF Working, IInv, TypeOK, HoldsLease, Holding, ChildAt, WorkerPc, Running
  <2>2. IsFiniteSet(lease) /\ Cardinality(lease) = sessions
    BY ActorsFinite, FS_Subset DEF IInv, TypeOK, LeasesCounted
  <2>3. Cardinality(Working) <= Cardinality(lease) /\ Cardinality(Working) \in Nat
    BY <2>1, <2>2, FS_Subset, FS_CardinalityType
  <2>4. policy \in PolicyType /\ Valid(policy) /\ sessions \in 0..Limit(policy)
    BY DEF IInv, TypeOK
  <2>5. Limit(policy) \in Nat /\ policy.maxSessions \in Nat
    BY <2>4, LimitBounds DEF PolicyType
  <2>6. Cardinality(Working) <= Limit(policy)
    BY <2>2, <2>3, <2>4, <2>5
  <2>7. QED
    BY <2>3, <2>4, <2>5, <2>6, LimitBounds DEF WorkWithinReservations
<1>2. QED
  BY <1>1, Invariance, PTL

\* A child runs only under its caller's lease and is gone before it is returned.
THEOREM ChildrenAreReaped == Spec => []NoOrphans
<1>1. IInv => NoOrphans
  BY ActorsFinite
  DEF IInv, TypeOK, NoOrphans, HoldsLease, Holding, ChildAt, WorkerPc, Running
<1>2. QED
  BY <1>1, Invariance, PTL

\* Success is not reported for a run stopped before its spawn or over its limit.
THEOREM SuccessIsTimely == Spec => []OkIsTimely
<1>1. IInv => OkIsTimely
  BY DEF IInv, OkIsTimely, Verdict
<1>2. QED
  BY <1>1, Invariance, PTL

\* The pools of all admitted children fit the host's aggregate.
THEOREM ChildPools == Spec => []ChildPoolsFit
<1>1. IInv => ChildPoolsFit
  BY ChildPolicyFits DEF IInv, TypeOK, ChildPoolsFit
<1>2. QED
  BY <1>1, Invariance, PTL
=============================================================================
