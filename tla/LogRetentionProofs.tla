-------------------------- MODULE LogRetentionProofs --------------------------
(* For any number of processes, connections, decisions and tables: every     *)
(* variable of LogRetention keeps its type, and one cleanup at most is past  *)
(* the advisory lock.                                                        *)
EXTENDS LogRetention, TLAPS

\* A cleanup past the lock holds the connection whose session has it.
LockOwned == \A p \in Processes : \A j \in Jobs : Deleting(p, j) => Owns(p, j)

\* The inductive invariant: the unlock needs LockOwned to find a lock, and
\* LockOwned needs the types of the functions it is about.
RetentionInv == TypeOK /\ LockOwned

\* Two flows never hold the same connection, so the owner of the lock is one.
LEMMA OwnerIsUnique ==
  ASSUME NEW p, NEW q, NEW x, NEW y, Owns(p, x), Owns(q, y)
  PROVE  p = q /\ x = y
BY DEF Owns, Held

\* The lock is what makes the cleaner the only one.
LEMMA LockOwnedImpliesOneCleaner == LockOwned => OneCleaner
BY OwnerIsUnique DEF LockOwned, OneCleaner

\* A cleanup that goes to a step of its own keeps the type of all the steps.
LEMMA StepsKeepType ==
  ASSUME NEW p \in Processes, NEW j \in Jobs, NEW step \in JobSteps,
         job \in [Processes -> [Jobs -> JobSteps]],
         job' = [job EXCEPT ![p][j] = step]
  PROVE  job' \in [Processes -> [Jobs -> JobSteps]]
OBVIOUS

LEMMA InitTypeOK == Init => TypeOK
BY PoolAssumption, BoundsAssumption
   DEF Init, TypeOK, Flows, JobSteps, CallSteps

\* The steps of a cleanup keep every variable's type.
LEMMA CleanupTypeOK ==
  ASSUME RetentionInv, NEW p \in Processes, NEW j \in Jobs,
         \/ Connect(p, j) \/ ConnectFails(p, j) \/ Work(p, j)
         \/ QueryFails(p, j) \/ Lost(p, j)
  PROVE  TypeOK'
<1>0. TypeOK /\ LockOwned
  BY DEF RetentionInv
<1>1. 1 \in DOMAIN Tables
  BY BoundsAssumption
<1>2. \A step : Leave(p, j, step) =>
        /\ job' = [job EXCEPT ![p][j] = step]
        /\ table' \in [Processes -> [Jobs -> DOMAIN Tables]]
  BY <1>0, <1>1 DEF TypeOK, Leave, Go
<1>3. \A step \in JobSteps : Go(p, j, step) \/ Leave(p, j, step) =>
        job' \in [Processes -> [Jobs -> JobSteps]]
  BY <1>0, StepsKeepType DEF TypeOK, Go, Leave
<1>4. {"idle", "tryLock", "delete", "unlock", "release"} \subseteq JobSteps
  BY DEF JobSteps
<1>5. CASE Connect(p, j)
  <2>1. job' \in [Processes -> [Jobs -> JobSteps]]
    BY <1>3, <1>4, <1>5 DEF Connect
  <2>2. holder' \in [Processes -> [Connections -> Flows \cup {None}]]
    BY <1>0, <1>5 DEF Connect, Take, Free, TypeOK, Flows
  <2> QED
    BY <1>0, <1>5, <2>1, <2>2 DEF Connect, TypeOK
<1>6. CASE ConnectFails(p, j)
  <2>1. job' \in [Processes -> [Jobs -> JobSteps]]
    BY <1>3, <1>4, <1>6 DEF ConnectFails, EndCleanup
  <2> QED
    BY <1>0, <1>6, <2>1 DEF ConnectFails, EndCleanup, TypeOK
<1>7. CASE TryLock(p, j)
  <2>1. job' \in [Processes -> [Jobs -> JobSteps]]
    BY <1>3, <1>4, <1>7 DEF TryLock
  <2>2. PICK k \in Connections :
          \/ lock' = [process |-> p, connection |-> k,
                      depth |-> IF lock = None THEN 1 ELSE lock.depth + 1]
          \/ lock' = lock
    BY <1>7 DEF TryLock, Held
  <2>3. lock' \in Lock \cup {None}
    BY <1>0, <2>2 DEF TypeOK, Lock
  <2> QED
    BY <1>0, <1>7, <2>1, <2>3 DEF TryLock, TypeOK
<1>8. CASE Delete(p, j)
  <2> DEFINE t == table[p][j]  n == Least(expired[t], Batch)
  <2>1. t \in DOMAIN Tables /\ expired[t] \in Nat /\ Batch \in Nat
    BY <1>0, BoundsAssumption DEF TypeOK
  <2>2. expired[t] - n \in Nat
    BY <2>1 DEF Least
  <2>3. expired' \in [DOMAIN Tables -> Nat]
    BY <1>0, <1>8, <2>1, <2>2 DEF Delete, TypeOK
  <2>4. t < Len(Tables) => t + 1 \in DOMAIN Tables
    BY <2>1, BoundsAssumption
  <2>5. \/ UNCHANGED <<table, job>>
        \/ /\ t < Len(Tables)
           /\ table' = [table EXCEPT ![p][j] = t + 1]
           /\ UNCHANGED job
        \/ Leave(p, j, "unlock")
    BY <1>8 DEF Delete
  <2>6. table' \in [Processes -> [Jobs -> DOMAIN Tables]]
    BY <1>0, <1>2, <2>4, <2>5 DEF TypeOK
  <2>7. job' \in [Processes -> [Jobs -> JobSteps]]
    BY <1>0, <1>3, <1>4, <2>5 DEF TypeOK
  <2> QED
    BY <1>0, <1>8, <2>3, <2>6, <2>7 DEF Delete, TypeOK
<1>9. CASE Unlock(p, j)
  <2>1. job' \in [Processes -> [Jobs -> JobSteps]]
    BY <1>3, <1>4, <1>9 DEF Unlock
  <2>2. lock \in Lock
    BY <1>0, <1>9 DEF TypeOK, LockOwned, Deleting, Owns, Unlock, At
  <2>3. Unlocked \in Lock \cup {None}
    BY <2>2 DEF Unlocked, Lock
  <2> QED
    BY <1>0, <1>9, <2>1, <2>3 DEF Unlock, TypeOK
<1>10. CASE Release(p, j)
  <2>1. job' \in [Processes -> [Jobs -> JobSteps]]
    BY <1>3, <1>4, <1>10 DEF Release, EndCleanup
  <2>2. holder' \in [Processes -> [Connections -> Flows \cup {None}]]
    BY <1>0, <1>10 DEF Release, Give, TypeOK
  <2> QED
    BY <1>0, <1>10, <2>1, <2>2 DEF Release, EndCleanup, TypeOK
<1>11. CASE QueryFails(p, j)
  <2>1. \/ Leave(p, j, "release")
        \/ Leave(p, j, "unlock")
    BY <1>11 DEF QueryFails
  <2>2. job' \in [Processes -> [Jobs -> JobSteps]]
    BY <1>3, <1>4, <2>1
  <2>3. table' \in [Processes -> [Jobs -> DOMAIN Tables]]
    BY <1>2, <2>1
  <2> QED
    BY <1>0, <1>11, <2>2, <2>3 DEF QueryFails, TypeOK
<1>12. CASE Lost(p, j)
  <2>1. Leave(p, j, "release")
    BY <1>12 DEF Lost
  <2>2. job' \in [Processes -> [Jobs -> JobSteps]]
    BY <1>3, <1>4, <2>1
  <2>3. table' \in [Processes -> [Jobs -> DOMAIN Tables]]
    BY <1>2, <2>1
  <2> QED
    BY <1>0, <1>12, <2>2, <2>3 DEF Lost, TypeOK
<1> QED
  BY <1>5, <1>6, <1>7, <1>8, <1>9, <1>10, <1>11, <1>12 DEF Work

\* So do the decisions and the processes.
LEMMA OtherTypeOK ==
  ASSUME RetentionInv, NEW p \in Processes,
         \/ Start(p) \/ Fire(p) \/ CloseIdle(p) \/ Crash(p)
         \/ \E c \in Callers[p] : \/ Arrive(p, c) \/ BeginDecision(p, c) \/ LookUp(p, c)
                                 \/ Answer(p, c) \/ DecisionFails(p, c)
  PROVE  TypeOK'
<1>0. TypeOK
  BY DEF RetentionInv
<1>1. CASE Start(p)
  BY <1>0, <1>1 DEF Start, TypeOK, JobSteps, Jobs
<1>2. CASE Fire(p)
  BY <1>0, <1>2 DEF Fire, TypeOK, JobSteps, Jobs
<1>3. CASE CloseIdle(p)
  BY <1>0, <1>3 DEF CloseIdle, TypeOK, jobs
<1>4. CASE Crash(p)
  <2>1. 1 \in DOMAIN Tables
    BY BoundsAssumption
  <2>2. table' \in [Processes -> [Jobs -> DOMAIN Tables]]
    BY <1>0, <1>4, <2>1 DEF Crash, TypeOK
  <2>3. job' \in [Processes -> [Jobs -> JobSteps]]
    BY <1>0, <1>4 DEF Crash, TypeOK, JobSteps
  <2>4. caller' \in [Processes -> [AllCallers -> CallSteps]]
    BY <1>0, <1>4 DEF Crash, TypeOK, CallSteps
  <2>5. holder' \in [Processes -> [Connections -> Flows \cup {None}]]
    BY <1>0, <1>4 DEF Crash, TypeOK
  <2>6. lock' \in Lock \cup {None}
    BY <1>0, <1>4 DEF Crash, TypeOK
  <2> QED
    BY <1>0, <1>4, <2>2, <2>3, <2>4, <2>5, <2>6 DEF Crash, TypeOK
<1>5. ASSUME NEW c \in Callers[p],
             \/ Arrive(p, c) \/ BeginDecision(p, c) \/ LookUp(p, c)
             \/ Answer(p, c) \/ DecisionFails(p, c)
      PROVE  TypeOK'
  <2>1. c \in AllCallers /\ c \in Flows
    BY <1>5 DEF AllCallers, Flows
  <2>2. PICK to \in CallSteps : caller' = [caller EXCEPT ![p][c] = to]
    BY <1>5 DEF Arrive, BeginDecision, LookUp, Answer, DecisionFails, Advance, CallSteps
  <2>3. caller' \in [Processes -> [AllCallers -> CallSteps]]
    BY <1>0, <2>1, <2>2 DEF TypeOK
  <2>4. holder' = holder \/ Take(p, c) \/ Give(p, c)
    BY <1>5 DEF Arrive, BeginDecision, LookUp, Answer, DecisionFails
  <2>5. holder' \in [Processes -> [Connections -> Flows \cup {None}]]
    <3>1. CASE holder' = holder
      BY <1>0, <3>1 DEF TypeOK
    <3>2. CASE Take(p, c)
      BY <1>0, <2>1, <3>2 DEF TypeOK, Take, Free
    <3>3. CASE Give(p, c)
      BY <1>0, <3>3 DEF TypeOK, Give
    <3> QED
      BY <2>4, <3>1, <3>2, <3>3
  <2>6. lock' = lock \/ lock' = None
    BY <1>5 DEF Arrive, BeginDecision, LookUp, Answer, DecisionFails
  <2>7. UNCHANGED <<up, jobs, expired>>
    BY <1>5 DEF Arrive, BeginDecision, LookUp, Answer, DecisionFails
  <2> QED
    BY <1>0, <2>3, <2>5, <2>6, <2>7 DEF TypeOK, jobs
<1> QED
  BY <1>1, <1>2, <1>3, <1>4, <1>5

\* A flow that takes a free connection or gives back its own leaves the lock
\* with whom it was.
LEMMA PoolKeepsOwner ==
  ASSUME TypeOK, NEW p \in Processes, NEW x, Take(p, x) \/ Give(p, x), lock' = lock,
         NEW q \in Processes, NEW y \in Flows, ~(q = p /\ y = x), Owns(q, y)
  PROVE  Owns(q, y)'
<1>1. lock.connection \in Connections /\ holder[q][lock.connection] = y /\ lock.process = q
      /\ lock # None
  BY DEF Owns, Held
<1>2. y # None
  BY PoolAssumption
<1>3. holder'[q][lock.connection] = y
  BY <1>1, <1>2 DEF TypeOK, Take, Free, Give
<1> QED
  BY <1>1, <1>3 DEF Owns, Held

\* The steps of a cleanup leave every cleanup past the lock its owner.
LEMMA CleanupLockOwned ==
  ASSUME RetentionInv, NEW p \in Processes, NEW j \in Jobs,
         \/ Connect(p, j) \/ ConnectFails(p, j) \/ Work(p, j)
         \/ QueryFails(p, j) \/ Lost(p, j)
  PROVE  LockOwned'
<1>0. TypeOK /\ LockOwned /\ Jobs \subseteq Flows
  BY DEF RetentionInv, Flows
<1> SUFFICES ASSUME NEW q \in Processes, NEW i \in Jobs, Deleting(q, i)'
             PROVE  Owns(q, i)'
  BY DEF LockOwned
<1>1. \A step : Go(p, j, step) \/ Leave(p, j, step) =>
        IF q = p /\ i = j THEN step \in {"delete", "unlock"} ELSE Deleting(q, i)
  BY <1>0 DEF Go, Leave, TypeOK, Deleting
<1>2. CASE Connect(p, j)
  <2>1. ~(q = p /\ i = j) /\ Deleting(q, i)
    BY <1>1, <1>2 DEF Connect
  <2> QED
    BY <1>0, <1>2, <2>1, PoolKeepsOwner DEF Connect, LockOwned
<1>3. CASE ConnectFails(p, j)
  <2>1. ~(q = p /\ i = j) /\ Deleting(q, i)
    BY <1>1, <1>3 DEF ConnectFails, EndCleanup
  <2> QED
    BY <1>0, <1>3, <2>1 DEF ConnectFails, LockOwned, Owns, Held
<1>4. CASE TryLock(p, j)
  <2>1. PICK k \in Held(p, j) :
          \/ /\ Grants(p, k)
             /\ lock' = [process |-> p, connection |-> k,
                         depth |-> IF lock = None THEN 1 ELSE lock.depth + 1]
             /\ Go(p, j, "delete")
          \/ Go(p, j, "release") /\ lock' = lock
    BY <1>4 DEF TryLock
  <2>2. holder' = holder /\ At(p, j, "tryLock")
    BY <1>4 DEF TryLock
  <2>3. CASE Go(p, j, "release") /\ lock' = lock
    <3>1. ~(q = p /\ i = j) /\ Deleting(q, i)
      BY <1>1, <2>3
    <3> QED
      BY <1>0, <2>2, <2>3, <3>1 DEF LockOwned, Owns, Held
  <2>4. CASE /\ Grants(p, k)
             /\ lock' = [process |-> p, connection |-> k,
                         depth |-> IF lock = None THEN 1 ELSE lock.depth + 1]
             /\ Go(p, j, "delete")
    <3>1. lock' # None
      <4>1. k \in Connections
        BY <2>1 DEF Held
      <4>2. lock = None \/ lock.depth \in Nat
        BY <1>0 DEF TypeOK, Lock
      <4>3. lock' \in Lock
        BY <2>4, <4>1, <4>2 DEF Lock
      <4> QED
        BY <4>3, PoolAssumption
    <3>2. CASE q = p /\ i = j
      BY <2>1, <2>2, <2>4, <3>1, <3>2 DEF Owns, Held
    <3>3. CASE ~(q = p /\ i = j)
      <4>1. Deleting(q, i)
        BY <1>1, <2>4, <3>3
      <4>2. Owns(q, i)
        BY <1>0, <4>1 DEF LockOwned
      <4>3. lock.process = p /\ lock.connection = k
        BY <2>4, <4>2 DEF Grants, Owns
      <4>4. Owns(p, j)
        BY <2>1, <4>2, <4>3 DEF Owns
      <4> QED
        BY <3>3, <4>2, <4>4, OwnerIsUnique
    <3> QED
      BY <3>2, <3>3
  <2> QED
    BY <2>1, <2>3, <2>4
<1>5. CASE Delete(p, j)
  <2>1. holder' = holder /\ lock' = lock /\ At(p, j, "delete")
        /\ (job' = job \/ Leave(p, j, "unlock"))
    BY <1>5 DEF Delete
  <2>2. Deleting(q, i)
    BY <1>1, <2>1 DEF At, Deleting
  <2> QED
    BY <1>0, <2>1, <2>2 DEF LockOwned, Owns, Held
<1>6. CASE Unlock(p, j)
  <2>1. ~(q = p /\ i = j) /\ Deleting(q, i) /\ Deleting(p, j)
    BY <1>1, <1>6 DEF Unlock, At, Deleting
  <2>2. Owns(q, i) /\ Owns(p, j)
    BY <1>0, <2>1 DEF LockOwned
  <2> QED
    BY <2>1, <2>2, OwnerIsUnique
<1>7. CASE Release(p, j)
  <2>1. ~(q = p /\ i = j) /\ Deleting(q, i)
    BY <1>1, <1>7 DEF Release, EndCleanup
  <2> QED
    BY <1>0, <1>7, <2>1, PoolKeepsOwner DEF Release, LockOwned
<1>8. CASE QueryFails(p, j)
  <2>1. holder' = holder /\ lock' = lock
    BY <1>8 DEF QueryFails
  <2>2. \/ Leave(p, j, "release")
        \/ Leave(p, j, "unlock") /\ At(p, j, "delete")
    BY <1>8 DEF QueryFails
  <2>3. Deleting(q, i)
    BY <1>1, <2>2 DEF At, Deleting
  <2> QED
    BY <1>0, <2>1, <2>3 DEF LockOwned, Owns, Held
<1>9. CASE Lost(p, j)
  <2>1. ~(q = p /\ i = j) /\ Deleting(q, i)
    BY <1>1, <1>9 DEF Lost
  <2>2. Owns(q, i)
    BY <1>0, <2>1 DEF LockOwned
  <2>3. ~Owns(p, j)
    BY <2>1, <2>2, OwnerIsUnique
  <2> QED
    BY <1>9, <2>2, <2>3 DEF Lost, Owns, Held
<1> QED
  BY <1>2, <1>3, <1>4, <1>5, <1>6, <1>7, <1>8, <1>9 DEF Work

\* So do the other steps: a connection is only closed, or its session lost, when
\* no cleanup is using it.
LEMMA OtherLockOwned ==
  ASSUME RetentionInv, NEW p \in Processes,
         \/ Start(p) \/ Fire(p) \/ CloseIdle(p) \/ Crash(p)
         \/ \E c \in Callers[p] : \/ Arrive(p, c) \/ BeginDecision(p, c) \/ LookUp(p, c)
                                 \/ Answer(p, c) \/ DecisionFails(p, c)
  PROVE  LockOwned'
<1>0. TypeOK /\ LockOwned /\ Jobs \subseteq Flows
  BY DEF RetentionInv, Flows
<1> SUFFICES ASSUME NEW q \in Processes, NEW i \in Jobs, Deleting(q, i)'
             PROVE  Owns(q, i)'
  BY DEF LockOwned
<1>1. CASE Start(p) \/ Fire(p)
  <2>1. UNCHANGED <<holder, lock>>
    BY <1>1 DEF Start, Fire
  <2>2. \E j \in Jobs : job' = [job EXCEPT ![p][j] = "connect"]
    BY <1>1 DEF Start, Fire, Jobs
  <2>3. Deleting(q, i)
    BY <1>0, <2>2 DEF TypeOK, Deleting
  <2> QED
    BY <1>0, <2>1, <2>3 DEF LockOwned, Owns, Held
<1>2. CASE CloseIdle(p)
  <2>1. Owns(q, i)
    BY <1>0, <1>2 DEF CloseIdle, jobs, Deleting, LockOwned
  <2>2. i # None
    BY <1>0, PoolAssumption
  <2> QED
    BY <1>2, <2>1, <2>2 DEF CloseIdle, Owns, Held, Free
<1>3. CASE Crash(p)
  <2>1. q # p /\ Deleting(q, i)
    BY <1>0, <1>3 DEF Crash, TypeOK, Deleting
  <2>2. Owns(q, i)
    BY <1>0, <2>1 DEF LockOwned
  <2> QED
    BY <1>0, <1>3, <2>1, <2>2 DEF Crash, TypeOK, Owns, Held
<1>4. ASSUME NEW c \in Callers[p],
             \/ Arrive(p, c) \/ BeginDecision(p, c) \/ LookUp(p, c)
             \/ Answer(p, c) \/ DecisionFails(p, c)
      PROVE  Owns(q, i)'
  <2>1. Owns(q, i)
    BY <1>0, <1>4 DEF Arrive, BeginDecision, LookUp, Answer, DecisionFails, jobs,
                      Deleting, LockOwned
  <2>2. c # i
    BY <1>4, PoolAssumption DEF AllCallers
  <2>3. lock' = lock
    BY <1>4, <2>1, <2>2, OwnerIsUnique
       DEF Arrive, BeginDecision, LookUp, Answer, DecisionFails
  <2>4. holder' = holder \/ Take(p, c) \/ Give(p, c)
    BY <1>4 DEF Arrive, BeginDecision, LookUp, Answer, DecisionFails
  <2>5. CASE holder' = holder
    BY <2>1, <2>3, <2>5 DEF Owns, Held
  <2>6. CASE Take(p, c) \/ Give(p, c)
    BY <1>0, <2>1, <2>2, <2>3, <2>6, PoolKeepsOwner
  <2> QED
    BY <2>4, <2>5, <2>6
<1> QED
  BY <1>1, <1>2, <1>3, <1>4

\* The invariant holds at first, and every step keeps it.
LEMMA InvariantHolds == Spec => []RetentionInv
<1>1. Init => RetentionInv
  <2> SUFFICES ASSUME Init PROVE LockOwned
    BY InitTypeOK DEF RetentionInv
  <2> QED
    BY DEF Init, LockOwned, Deleting
<1>2. RetentionInv /\ [Next]_vars => RetentionInv'
  <2> SUFFICES ASSUME RetentionInv, [Next]_vars PROVE RetentionInv'
    OBVIOUS
  <2>1. CASE \E p \in Processes : \E j \in Jobs :
               \/ Connect(p, j) \/ ConnectFails(p, j) \/ Work(p, j)
               \/ QueryFails(p, j) \/ Lost(p, j)
    BY <2>1, CleanupTypeOK, CleanupLockOwned DEF RetentionInv
  <2>2. CASE \E p \in Processes :
               \/ Start(p) \/ Fire(p) \/ CloseIdle(p) \/ Crash(p)
               \/ \E c \in Callers[p] :
                    \/ Arrive(p, c) \/ BeginDecision(p, c) \/ LookUp(p, c)
                    \/ Answer(p, c) \/ DecisionFails(p, c)
    BY <2>2, OtherTypeOK, OtherLockOwned DEF RetentionInv
  <2>3. CASE \E t \in DOMAIN Tables : Expire(t)
    BY <2>3 DEF RetentionInv, TypeOK, LockOwned, Deleting, Owns, Held, Expire, jobs
  <2>4. CASE UNCHANGED vars
    BY <2>4 DEF RetentionInv, TypeOK, LockOwned, Deleting, Owns, Held, vars, jobs
  <2> QED
    BY <2>1, <2>2, <2>3, <2>4 DEF Next
<1> QED
  BY <1>1, <1>2, PTL DEF Spec

\* Every variable of the retention and the pool always has its type.
THEOREM RetentionTypeCorrect == Spec => []TypeOK
<1>1. RetentionInv => TypeOK
  BY DEF RetentionInv
<1> QED
  BY <1>1, InvariantHolds, PTL

\* Whatever processes start, crash, lose connections or leak the lock, at most
\* one cleanup is past the advisory lock, in any number of processes.
THEOREM OneCleanerAtATime == Spec => []OneCleaner
<1>1. RetentionInv => OneCleaner
  BY LockOwnedImpliesOneCleaner DEF RetentionInv
<1> QED
  BY <1>1, InvariantHolds, PTL

=============================================================================
