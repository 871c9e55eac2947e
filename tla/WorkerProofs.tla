---------------------------- MODULE WorkerProofs ----------------------------
(***************************************************************************)
(* What the worker process runs: the publisher of the message table, the    *)
(* consumer of the bus and the jobs of the scheduler, for every number of   *)
(* workers, messages and instances.                                        *)
(***************************************************************************)
EXTENDS ReliableMsg, MessageWorker, Scheduler, FiniteSetTheorems, TLAPS

-----------------------------------------------------------------------------
(***************************************************************************)
(* Proofs about the reliable-message table, for any number of workers and  *)
(* messages and any attempt budget, backoff and lease.                     *)
(***************************************************************************)

\* What a worker has in memory names rows that exist.
MemoryInv ==
  \A w \in Workers :
    /\ \A e \in batch[w] : status[e.id] # "NONE"
    /\ pc[w] \in Claimed => cur[w] \in Items /\ status[cur[w].id] # "NONE"

\* The bus has accepted what a worker is about to mark, or has marked.
AcceptedInv ==
  /\ \A w \in Workers : pc[w] = "mark" => cur[w].id \in accepted
  /\ \A m \in Messages : status[m] = "PUBLISHED" => m \in accepted

\* No copy of attempts is ahead of the publishes that really failed.
BudgetInv ==
  /\ \A m \in Messages :
       /\ attempts[m] <= failures[m]
       /\ status[m] = "DEAD" => attempts[m] = MaxAttempts
       /\ status[m] \in {"NONE", "PENDING", "PROCESSING"} => attempts[m] < MaxAttempts
  /\ \A w \in Workers :
       /\ \A e \in batch[w] : e.attempts <= failures[e.id]
       /\ pc[w] \in Claimed => cur[w].attempts <= failures[cur[w].id]
       /\ pc[w] = "retry" => cur[w].attempts + 1 <= failures[cur[w].id]

(* While no worker outlives its lease, the row that a worker has claimed   *)
(* is PROCESSING, its next_attempt_at is the end of that worker's lease,   *)
(* and no other worker has claimed it.                                     *)
LeaseInv ==
  ~AllowOverrun =>
    /\ \A w \in Workers : pc[w] \in Claimed =>
         /\ status[cur[w].id] = "PROCESSING"
         /\ wait[cur[w].id] = lease[w]
         /\ lease[w] > 0
    /\ \A v, w \in Workers :
         v # w /\ pc[v] \in Claimed /\ pc[w] \in Claimed => cur[v].id # cur[w].id

IInv == TypeOK /\ MemoryInv /\ AcceptedInv /\ BudgetInv /\ LeaseInv

-----------------------------------------------------------------------------
\* What the query returns names a row and a count that leaves room for one more.
LEMMA ItemFacts ==
  \A e \in Items :
    /\ e.id \in Messages
    /\ e.attempts \in 0..MaxAttempts
    /\ e.attempts + 1 \in 1..MaxAttempts
    /\ RetryDelay(e.attempts + 1) \in Nat
<1> TAKE e \in Items
<1>1. e.id \in Messages /\ e.attempts \in 0..(MaxAttempts - 1)
  BY DEF Items
<1>2. e.attempts \in 0..MaxAttempts /\ e.attempts + 1 \in 1..MaxAttempts
  BY <1>1, ConstantsAssumption
<1> QED BY <1>1, <1>2, RetryDelayAssumption

\* A row and its count, read while it may still be retried, make an item of a batch.
LEMMA ItemIntro ==
  \A m \in Messages, n \in 0..(MaxAttempts - 1) : [id |-> m, attempts |-> n] \in Items
BY DEF Items

\* The query puts a due row with its present attempts into the batch.
LEMMA PendingItem ==
  ASSUME TypeOK, NEW w \in Workers, Pending(w), NEW e \in batch'[w]
  PROVE  \E m \in Due : e.id = m /\ e.attempts = attempts[m]
<1>1. PICK m \in Due : e = [id |-> m, attempts |-> attempts[m]]
  BY DEF Pending, TypeOK
<1> QED BY <1>1

\* A worker that holds a claim works on an item of its batch.
LEMMA CurFacts ==
  ASSUME TypeOK, MemoryInv, NEW w \in Workers, pc[w] \in Claimed
  PROVE  /\ cur[w] \in Items
         /\ cur[w].id \in Messages
         /\ cur[w].attempts \in 0..MaxAttempts
         /\ cur[w].attempts + 1 \in 1..MaxAttempts
         /\ RetryDelay(cur[w].attempts + 1) \in Nat
<1>1. cur[w] \in Items
  BY DEF MemoryInv
<1> QED BY <1>1, ItemFacts

(* The arithmetic of the clock, the lease and the counters.                *)
LEMMA NumberFacts ==
  /\ Lease \in Nat /\ Lease \in 0..Lease /\ 0 \in 0..Lease /\ Lease > 0
  /\ 0 \in 0..MaxAttempts
  /\ \A n \in Nat : Decrement(n) \in Nat
  /\ \A n \in 0..Lease : Decrement(n) \in 0..Lease
  /\ \A n \in 0..MaxAttempts : Min2(n + 1, MaxAttempts) \in 0..MaxAttempts
BY ConstantsAssumption DEF Decrement, Min2

(* The types are preserved by every step: attempts stays within its budget *)
(* although retry computes it from a copy.                                 *)
LEMMA TypeStep == TypeOK /\ MemoryInv /\ BudgetInv /\ [Next]_vars => TypeOK'
<1> SUFFICES ASSUME TypeOK, MemoryInv, BudgetInv, [Next]_vars PROVE TypeOK'
  OBVIOUS
<1> USE NumberFacts DEF TypeOK
<1>1. CASE UNCHANGED vars
  BY <1>1 DEF vars, rowVars, workerVars, busVars
<1>2. ASSUME NEW m \in Messages, Enqueue(m) PROVE TypeOK'
  BY <1>2 DEF Enqueue, workerVars, busVars, Statuses
<1>3. ASSUME NEW w \in Workers, RecoverExpiredClaims(w) PROVE TypeOK'
  BY <1>3 DEF RecoverExpiredClaims, Expired, busVars, Statuses
<1>4. ASSUME NEW w \in Workers, Pending(w) PROVE TypeOK'
  <2>0. \A m \in Due : m \in Messages /\ attempts[m] \in 0..(MaxAttempts - 1)
    BY ConstantsAssumption DEF Due, BudgetInv
  <2>1. \A m \in Due : [id |-> m, attempts |-> attempts[m]] \in Items
    BY <2>0, ItemIntro
  <2> DEFINE oldest == {m \in Due : Cardinality({k \in Due : k < m}) < BatchLimit}
             read == {[id |-> m, attempts |-> attempts[m]] : m \in oldest}
  <2>a. batch' = [batch EXCEPT ![w] = read]
    BY <1>4 DEF Pending
  <2>b. read \in SUBSET Items
    BY <2>1
  <2> HIDE DEF read
  <2>2. batch' \in [Workers -> SUBSET Items]
    BY <2>a, <2>b
  <2> QED BY <1>4, <2>2 DEF Pending, rowVars, busVars
<1>5. ASSUME NEW w \in Workers, EndBatch(w) PROVE TypeOK'
  BY <1>5 DEF EndBatch, rowVars, busVars
<1>6. ASSUME NEW w \in Workers, Claim(w) PROVE TypeOK'
  <2>1. PICK e \in batch[w] : ClaimItem(w, e)
    BY <1>6 DEF Claim
  <2>2. e \in Items /\ e.id \in Messages
    BY ItemFacts
  <2>3. status' \in [Messages -> Statuses]
    BY <2>1, <2>2 DEF ClaimItem, Statuses
  <2>4. /\ wait' \in [Messages -> Nat]
        /\ lease' \in [Workers -> 0..Lease]
        /\ cur' \in [Workers -> Items \cup {NoItem}]
    BY <2>1, <2>2 DEF ClaimItem
  <2>5. pc' \in [Workers -> {"idle", "query", "loop"} \cup Claimed]
    BY <2>1 DEF ClaimItem, Claimed
  <2> QED BY <2>1, <2>3, <2>4, <2>5 DEF ClaimItem, busVars
<1>7. ASSUME NEW w \in Workers, PublishOk(w) PROVE TypeOK'
  <2>1. cur[w].id \in Messages
    BY <1>7, CurFacts DEF PublishOk, Claimed
  <2> QED BY <1>7, <2>1 DEF PublishOk, rowVars, Claimed
<1>8. ASSUME NEW w \in Workers, PublishError(w) PROVE TypeOK'
  <2>1. cur[w].id \in Messages
    BY <1>8, CurFacts DEF PublishError, Claimed
  <2> QED BY <1>8, <2>1 DEF PublishError, rowVars, Claimed
<1>9. ASSUME NEW w \in Workers, Published(w) PROVE TypeOK'
  <2>1. cur[w].id \in Messages
    BY <1>9, CurFacts DEF Published, Claimed
  <2> QED BY <1>9, <2>1 DEF Published, Release, busVars, Statuses
<1>10. ASSUME NEW w \in Workers, Retry(w) PROVE TypeOK'
  <2>1. /\ cur[w].id \in Messages
        /\ cur[w].attempts + 1 \in 0..MaxAttempts
        /\ RetryDelay(cur[w].attempts + 1) \in Nat
    BY <1>10, CurFacts DEF Retry, StatusAfter, Claimed
  <2>2. status' \in [Messages -> Statuses]
    BY <1>10, <2>1 DEF Retry, StatusAfter, Statuses
  <2> QED BY <1>10, <2>1, <2>2 DEF Retry, StatusAfter, Release, busVars
<1>11. ASSUME NEW w \in Workers, Abort(w) PROVE TypeOK'
  BY <1>11, ConstantsAssumption DEF Abort, rowVars, busVars
<1>12. CASE Tick
  BY <1>12 DEF Tick, busVars
<1> QED
  BY <1>1, <1>2, <1>3, <1>4, <1>5, <1>6, <1>7, <1>8, <1>9, <1>10, <1>11, <1>12
  DEF Next, Step

(* The memory of a worker names rows that exist: no statement deletes one. *)
LEMMA MemoryStep == TypeOK /\ MemoryInv /\ [Next]_vars => MemoryInv'
<1> SUFFICES ASSUME TypeOK, MemoryInv, [Next]_vars PROVE MemoryInv'
  OBVIOUS
<1> USE DEF TypeOK, MemoryInv
<1>0. \A w \in Workers : \A e \in batch[w] : e \in Items /\ e.id \in Messages
  BY ItemFacts
<1>c. \A w \in Workers : pc[w] \in Claimed => cur[w].id \in Messages
  BY CurFacts
<1>1. CASE UNCHANGED vars
  BY <1>1 DEF vars, rowVars, workerVars, busVars
<1>2. ASSUME NEW m \in Messages, Enqueue(m) PROVE MemoryInv'
  BY <1>0, <1>2, <1>c DEF Enqueue, workerVars
<1>3. ASSUME NEW w \in Workers, RecoverExpiredClaims(w) PROVE MemoryInv'
  BY <1>0, <1>3, <1>c DEF RecoverExpiredClaims, Expired, Claimed
<1>4. ASSUME NEW w \in Workers, Pending(w) PROVE MemoryInv'
  <2>1. \A e \in batch'[w] : status[e.id] # "NONE"
    BY <1>4, PendingItem DEF Due
  <2> QED BY <1>4, <2>1 DEF Pending, rowVars, Claimed
<1>5. ASSUME NEW w \in Workers, EndBatch(w) PROVE MemoryInv'
  BY <1>5 DEF EndBatch, rowVars, Claimed
<1>6. ASSUME NEW w \in Workers, Claim(w) PROVE MemoryInv'
  <2>1. PICK e \in batch[w] : ClaimItem(w, e)
    BY <1>6 DEF Claim
  <2>2. \A m \in Messages : status[m] # "NONE" => status'[m] # "NONE"
    BY <2>1 DEF ClaimItem
  <2>3. \A v \in Workers : batch'[v] \subseteq batch[v]
    BY <2>1 DEF ClaimItem
  <2>4. \A v \in Workers : pc'[v] \in Claimed =>
          cur'[v] \in Items /\ status[cur'[v].id] # "NONE" /\ cur'[v].id \in Messages
    BY <1>0, <1>c, <2>1 DEF ClaimItem, Claimed
  <2> QED BY <1>0, <2>2, <2>3, <2>4
<1>7. ASSUME NEW w \in Workers, PublishOk(w) PROVE MemoryInv'
  BY <1>7 DEF PublishOk, rowVars, Claimed
<1>8. ASSUME NEW w \in Workers, PublishError(w) PROVE MemoryInv'
  BY <1>8 DEF PublishError, rowVars, Claimed
<1>9. ASSUME NEW w \in Workers, Published(w) PROVE MemoryInv'
  BY <1>0, <1>9, <1>c DEF Published, Release, Claimed
<1>10. ASSUME NEW w \in Workers, Retry(w) PROVE MemoryInv'
  <2>1. \A m \in Messages : status[m] # "NONE" => status'[m] # "NONE"
    BY <1>10 DEF Retry, StatusAfter
  <2> QED BY <1>0, <1>10, <1>c, <2>1 DEF Retry, StatusAfter, Release, Claimed
<1>11. ASSUME NEW w \in Workers, Abort(w) PROVE MemoryInv'
  BY <1>11 DEF Abort, rowVars, Claimed
<1>12. CASE Tick
  BY <1>12 DEF Tick
<1> QED
  BY <1>1, <1>2, <1>3, <1>4, <1>5, <1>6, <1>7, <1>8, <1>9, <1>10, <1>11, <1>12
  DEF Next, Step

(* What is marked PUBLISHED, or about to be, has been accepted: only        *)
(* PublishOk leads to published, and the bus forgets nothing.              *)
LEMMA AcceptedStep ==
  TypeOK /\ MemoryInv /\ AcceptedInv /\ [Next]_vars => AcceptedInv'
<1> SUFFICES ASSUME TypeOK, MemoryInv, AcceptedInv, [Next]_vars PROVE AcceptedInv'
  OBVIOUS
<1> USE DEF TypeOK, AcceptedInv
<1>1. CASE UNCHANGED vars
  BY <1>1 DEF vars, rowVars, workerVars, busVars
<1>2. ASSUME NEW m \in Messages, Enqueue(m) PROVE AcceptedInv'
  BY <1>2 DEF Enqueue, workerVars, busVars
<1>3. ASSUME NEW w \in Workers, RecoverExpiredClaims(w) PROVE AcceptedInv'
  BY <1>3 DEF RecoverExpiredClaims, Expired, busVars
<1>4. ASSUME NEW w \in Workers, Pending(w) PROVE AcceptedInv'
  BY <1>4 DEF Pending, rowVars, busVars
<1>5. ASSUME NEW w \in Workers, EndBatch(w) PROVE AcceptedInv'
  BY <1>5 DEF EndBatch, rowVars, busVars
<1>6. ASSUME NEW w \in Workers, Claim(w) PROVE AcceptedInv'
  <2>1. PICK e \in batch[w] : ClaimItem(w, e)
    BY <1>6 DEF Claim
  <2>2. e.id \in Messages
    BY ItemFacts
  <2> QED BY <2>1, <2>2 DEF ClaimItem, busVars
<1>7. ASSUME NEW w \in Workers, PublishOk(w) PROVE AcceptedInv'
  BY <1>7 DEF PublishOk, rowVars
<1>8. ASSUME NEW w \in Workers, PublishError(w) PROVE AcceptedInv'
  BY <1>8 DEF PublishError, rowVars
<1>9. ASSUME NEW w \in Workers, Published(w) PROVE AcceptedInv'
  <2>1. cur[w].id \in Messages
    BY <1>9, CurFacts DEF Published, Claimed
  <2> QED BY <1>9, <2>1 DEF Published, Release, busVars
<1>10. ASSUME NEW w \in Workers, Retry(w) PROVE AcceptedInv'
  <2>1. \A m \in Messages : status'[m] = "PUBLISHED" => status[m] = "PUBLISHED"
    BY <1>10 DEF Retry, StatusAfter
  <2> QED BY <1>10, <2>1 DEF Retry, StatusAfter, Release, busVars
<1>11. ASSUME NEW w \in Workers, Abort(w) PROVE AcceptedInv'
  BY <1>11 DEF Abort, rowVars, busVars
<1>12. CASE Tick
  BY <1>12 DEF Tick, busVars
<1> QED
  BY <1>1, <1>2, <1>3, <1>4, <1>5, <1>6, <1>7, <1>8, <1>9, <1>10, <1>11, <1>12
  DEF Next, Step

(* The copies of attempts never run ahead of the failed publishes, so the  *)
(* budget that retry compares with MaxAttempts has really been used.       *)
LEMMA BudgetStep ==
  TypeOK /\ MemoryInv /\ BudgetInv /\ [Next]_vars => BudgetInv'
<1> SUFFICES ASSUME TypeOK, MemoryInv, BudgetInv, [Next]_vars PROVE BudgetInv'
  OBVIOUS
<1> USE NumberFacts DEF TypeOK, BudgetInv
<1>0. \A w \in Workers : \A e \in batch[w] : e \in Items /\ e.id \in Messages
  BY ItemFacts
<1>c. \A w \in Workers : pc[w] \in Claimed => cur[w].id \in Messages
  BY CurFacts
<1>1. CASE UNCHANGED vars
  BY <1>1 DEF vars, rowVars, workerVars, busVars
<1>2. ASSUME NEW m \in Messages, Enqueue(m) PROVE BudgetInv'
  BY <1>2, ConstantsAssumption DEF Enqueue, workerVars, busVars
<1>3. ASSUME NEW w \in Workers, RecoverExpiredClaims(w) PROVE BudgetInv'
  BY <1>3 DEF RecoverExpiredClaims, Expired, busVars, Claimed
<1>4. ASSUME NEW w \in Workers, Pending(w) PROVE BudgetInv'
  <2>1. \A e \in batch'[w] : e.attempts <= failures[e.id]
    BY <1>4, PendingItem DEF Due
  <2> QED BY <1>4, <2>1 DEF Pending, rowVars, busVars, Claimed
<1>5. ASSUME NEW w \in Workers, EndBatch(w) PROVE BudgetInv'
  BY <1>5 DEF EndBatch, rowVars, busVars, Claimed
<1>6. ASSUME NEW w \in Workers, Claim(w) PROVE BudgetInv'
  <2>1. PICK e \in batch[w] : ClaimItem(w, e)
    BY <1>6 DEF Claim
  <2>2. \A m \in Messages : \/ status'[m] = status[m]
                           \/ (status[m] = "PENDING" /\ status'[m] = "PROCESSING")
    <3>1. CASE status' = status
      BY <3>1
    <3>2. CASE status[e.id] = "PENDING" /\ status' = [status EXCEPT ![e.id] = "PROCESSING"]
      BY <3>2
    <3> QED BY <2>1, <3>1, <3>2 DEF ClaimItem
  <2>3. \A v \in Workers : batch'[v] \subseteq batch[v]
    BY <2>1 DEF ClaimItem
  <2>4. \A v \in Workers : /\ pc'[v] \in Claimed => cur'[v].attempts <= failures[cur'[v].id]
                           /\ pc'[v] = "retry" => pc[v] = "retry" /\ cur'[v] = cur[v]
    BY <2>1 DEF ClaimItem, Claimed
  <2>5. UNCHANGED <<attempts, failures>>
    BY <2>1 DEF ClaimItem, busVars
  <2> QED BY <2>2, <2>3, <2>4, <2>5
<1>7. ASSUME NEW w \in Workers, PublishOk(w) PROVE BudgetInv'
  BY <1>7 DEF PublishOk, rowVars, Claimed
<1>8. ASSUME NEW w \in Workers, PublishError(w) PROVE BudgetInv'
  <2>1. cur[w].id \in Messages /\ cur[w].attempts + 1 \in 1..MaxAttempts
        /\ cur[w].attempts \in 0..MaxAttempts
    BY <1>8, CurFacts DEF PublishError, Claimed
  <2>2. \A m \in Messages : failures[m] <= failures'[m]
    BY <1>8, <2>1, ConstantsAssumption DEF PublishError, Min2
  <2>3. cur[w].attempts <= failures[cur[w].id]
    BY <1>8 DEF PublishError, Claimed
  <2>4. failures'[cur[w].id] = Min2(failures[cur[w].id] + 1, MaxAttempts)
    BY <1>8, <2>1 DEF PublishError
  <2>5. cur[w].attempts + 1 <= failures'[cur[w].id]
    BY <2>1, <2>3, <2>4, ConstantsAssumption DEF Min2
  <2>6. failures' \in [Messages -> 0..MaxAttempts]
    BY <1>8, <2>1 DEF PublishError
  <2>7. ASSUME NEW m \in Messages
        PROVE  /\ attempts'[m] <= failures'[m]
               /\ status'[m] = "DEAD" => attempts'[m] = MaxAttempts
               /\ status'[m] \in {"NONE", "PENDING", "PROCESSING"} => attempts'[m] < MaxAttempts
    BY <1>8, <2>2, <2>6 DEF PublishError, rowVars
  <2>8. ASSUME NEW v \in Workers, NEW e \in batch'[v]
        PROVE  e.attempts <= failures'[e.id]
    <3>1. e \in batch[v] /\ e.id \in Messages /\ e.attempts \in 0..MaxAttempts
      BY <1>0, <1>8, ItemFacts DEF PublishError
    <3> QED BY <2>2, <2>6, <3>1
  <2>9. ASSUME NEW v \in Workers, pc'[v] \in Claimed
        PROVE  /\ cur'[v].attempts <= failures'[cur'[v].id]
               /\ pc'[v] = "retry" => cur'[v].attempts + 1 <= failures'[cur'[v].id]
    <3>1. CASE v = w
      BY <1>8, <2>1, <2>5, <2>6, <3>1 DEF PublishError
    <3>2. CASE v # w
      <4>1. pc'[v] = pc[v] /\ cur'[v] = cur[v]
        BY <1>8, <3>2 DEF PublishError
      <4>2. cur[v].id \in Messages /\ cur[v].attempts \in 0..MaxAttempts
        BY <2>9, <4>1, CurFacts
      <4> QED BY <2>2, <2>6, <2>9, <4>1, <4>2
    <3> QED BY <3>1, <3>2
  <2> QED BY <2>7, <2>8, <2>9 DEF Claimed
<1>9. ASSUME NEW w \in Workers, Published(w) PROVE BudgetInv'
  BY <1>9, <1>c DEF Published, Release, busVars, Claimed
<1>10. ASSUME NEW w \in Workers, Retry(w) PROVE BudgetInv'
  <2> DEFINE m == cur[w].id
             n == cur[w].attempts + 1
  <2>1. m \in Messages /\ n \in 1..MaxAttempts
    BY <1>10, CurFacts DEF Retry, StatusAfter, Claimed
  <2>2. n <= failures[m]
    BY <1>10 DEF Retry, StatusAfter
  <2>3. /\ attempts' = [attempts EXCEPT ![m] = n]
        /\ status' = [status EXCEPT ![m] = IF n >= MaxAttempts THEN "DEAD" ELSE "PENDING"]
    BY <1>10 DEF Retry, StatusAfter
  <2>4. UNCHANGED <<batch, failures>>
    BY <1>10 DEF Retry, StatusAfter, busVars
  <2>5. \A v \in Workers : pc'[v] \in Claimed => pc'[v] = pc[v] /\ cur'[v] = cur[v]
    BY <1>10 DEF Retry, StatusAfter, Release, Claimed
  <2>6. \A v \in Workers : pc'[v] = "retry" => pc[v] = "retry" /\ cur'[v] = cur[v]
    BY <1>10 DEF Retry, StatusAfter, Release
  <2> HIDE DEF m, n
  <2>7. ASSUME NEW k \in Messages
        PROVE  /\ attempts'[k] <= failures'[k]
               /\ status'[k] = "DEAD" => attempts'[k] = MaxAttempts
               /\ status'[k] \in {"NONE", "PENDING", "PROCESSING"} => attempts'[k] < MaxAttempts
    BY <2>1, <2>2, <2>3, <2>4, ConstantsAssumption
  <2> QED BY <2>4, <2>5, <2>6, <2>7
<1>11. ASSUME NEW w \in Workers, Abort(w) PROVE BudgetInv'
  BY <1>11 DEF Abort, rowVars, busVars, Claimed
<1>12. CASE Tick
  BY <1>12 DEF Tick, busVars
<1> QED
  BY <1>1, <1>2, <1>3, <1>4, <1>5, <1>6, <1>7, <1>8, <1>9, <1>10, <1>11, <1>12
  DEF Next, Step

(* A claim changes the row of the claimed item from PENDING to PROCESSING, *)
(* or it skips the item and changes no row.                                *)
LEMMA ClaimCases ==
  ASSUME TypeOK, NEW w \in Workers, Claim(w)
  PROVE  \/ /\ UNCHANGED <<status, wait, lease, cur, pc>>
         \/ \E m \in Messages :
              /\ status[m] = "PENDING"
              /\ status' = [status EXCEPT ![m] = "PROCESSING"]
              /\ wait' = [wait EXCEPT ![m] = Lease]
              /\ lease' = [lease EXCEPT ![w] = Lease]
              /\ cur'[w].id = m
              /\ \A v \in Workers \ {w} : cur'[v] = cur[v]
              /\ pc' = [pc EXCEPT ![w] = "publish"]
<1>1. PICK e \in batch[w] : ClaimItem(w, e)
  BY DEF Claim
<1>2. e.id \in Messages
  BY ItemFacts DEF TypeOK
<1>3. CASE status[e.id] = "PENDING"
  <2>1. cur'[w].id = e.id /\ \A v \in Workers \ {w} : cur'[v] = cur[v]
    BY <1>1, <1>3 DEF ClaimItem, TypeOK
  <2> QED BY <1>1, <1>2, <1>3, <2>1 DEF ClaimItem
<1>4. CASE status[e.id] # "PENDING"
  BY <1>1, <1>4 DEF ClaimItem
<1> QED BY <1>3, <1>4

(* While no worker outlives its lease, a claimed row stays PROCESSING in   *)
(* the hands of one worker until that worker marks it, retries it or dies. *)
LEMMA LeaseStep ==
  TypeOK /\ MemoryInv /\ LeaseInv /\ [Next]_vars => LeaseInv'
<1> SUFFICES ASSUME TypeOK, MemoryInv, LeaseInv, [Next]_vars, ~AllowOverrun
             PROVE  LeaseInv'
  BY DEF LeaseInv
<1> USE DEF TypeOK, LeaseInv
<1>c. \A w \in Workers : pc[w] \in Claimed => cur[w].id \in Messages
  BY CurFacts
<1>1. CASE UNCHANGED vars
  BY <1>1 DEF vars, rowVars, workerVars, busVars
<1>2. ASSUME NEW m \in Messages, Enqueue(m) PROVE LeaseInv'
  BY <1>2, <1>c DEF Enqueue, workerVars
<1>3. ASSUME NEW w \in Workers, RecoverExpiredClaims(w) PROVE LeaseInv'
  <2>1. \A v \in Workers : pc'[v] \in Claimed => pc'[v] = pc[v]
    BY <1>3 DEF RecoverExpiredClaims, Expired, Claimed
  <2>2. \A v \in Workers : pc[v] \in Claimed => wait[cur[v].id] # 0
    BY NumberFacts
  <2>3. \A v \in Workers : pc[v] \in Claimed => status'[cur[v].id] = "PROCESSING"
    BY <1>3, <1>c, <2>2 DEF RecoverExpiredClaims, Expired
  <2> QED BY <1>3, <2>1, <2>3 DEF RecoverExpiredClaims, Expired
<1>4. ASSUME NEW w \in Workers, Pending(w) PROVE LeaseInv'
  BY <1>4 DEF Pending, rowVars, Claimed
<1>5. ASSUME NEW w \in Workers, EndBatch(w) PROVE LeaseInv'
  BY <1>5 DEF EndBatch, rowVars, Claimed
<1>6. ASSUME NEW w \in Workers, Claim(w) PROVE LeaseInv'
  <2>1. CASE UNCHANGED <<status, wait, lease, cur, pc>>
    BY <2>1
  <2>2. ASSUME NEW m \in Messages,
               status[m] = "PENDING",
               status' = [status EXCEPT ![m] = "PROCESSING"],
               wait' = [wait EXCEPT ![m] = Lease],
               lease' = [lease EXCEPT ![w] = Lease],
               cur'[w].id = m,
               \A v \in Workers \ {w} : cur'[v] = cur[v],
               pc' = [pc EXCEPT ![w] = "publish"]
        PROVE  LeaseInv'
    <3>1. \A v \in Workers \ {w} : /\ pc'[v] = pc[v]
                                   /\ lease'[v] = lease[v]
                                   /\ pc[v] \in Claimed => cur[v].id # m
      BY <2>2
    <3>2. /\ status'[m] = "PROCESSING" /\ wait'[m] = Lease
          /\ lease'[w] = Lease /\ Lease > 0
      BY <2>2, NumberFacts
    <3>3. \A k \in Messages \ {m} : status'[k] = status[k] /\ wait'[k] = wait[k]
      BY <2>2
    <3>4. \A v \in Workers : pc'[v] \in Claimed =>
            /\ status'[cur'[v].id] = "PROCESSING"
            /\ wait'[cur'[v].id] = lease'[v]
            /\ lease'[v] > 0
      BY <1>c, <2>2, <3>1, <3>2, <3>3
    <3>5. \A u, v \in Workers :
            u # v /\ pc'[u] \in Claimed /\ pc'[v] \in Claimed => cur'[u].id # cur'[v].id
      BY <1>c, <2>2, <3>1
    <3> QED BY <3>4, <3>5
  <2> QED BY <1>6, <2>1, <2>2, ClaimCases
<1>7. ASSUME NEW w \in Workers, PublishOk(w) PROVE LeaseInv'
  BY <1>7 DEF PublishOk, rowVars, Claimed
<1>8. ASSUME NEW w \in Workers, PublishError(w) PROVE LeaseInv'
  BY <1>8 DEF PublishError, rowVars, Claimed
<1>9. ASSUME NEW w \in Workers, Published(w) PROVE LeaseInv'
  <2>1. \A v \in Workers : pc'[v] \in Claimed =>
          v # w /\ pc'[v] = pc[v] /\ cur'[v] = cur[v] /\ lease'[v] = lease[v]
    BY <1>9 DEF Published, Release, Claimed
  <2>2. \A m \in Messages : m # cur[w].id => status'[m] = status[m] /\ wait'[m] = wait[m]
    BY <1>9 DEF Published
  <2>3. \A v \in Workers : v # w /\ pc[v] \in Claimed => cur[v].id # cur[w].id
    BY <1>9 DEF Published, Claimed
  <2> QED BY <1>c, <2>1, <2>2, <2>3
<1>10. ASSUME NEW w \in Workers, Retry(w) PROVE LeaseInv'
  <2>1. \A v \in Workers : pc'[v] \in Claimed =>
          v # w /\ pc'[v] = pc[v] /\ cur'[v] = cur[v] /\ lease'[v] = lease[v]
    BY <1>10 DEF Retry, StatusAfter, Release, Claimed
  <2>2. \A m \in Messages : m # cur[w].id => status'[m] = status[m] /\ wait'[m] = wait[m]
    BY <1>10 DEF Retry, StatusAfter
  <2>3. \A v \in Workers : v # w /\ pc[v] \in Claimed => cur[v].id # cur[w].id
    BY <1>10 DEF Retry, StatusAfter, Claimed
  <2> QED BY <1>c, <2>1, <2>2, <2>3
<1>11. ASSUME NEW w \in Workers, Abort(w) PROVE LeaseInv'
  BY <1>11 DEF Abort, rowVars, Claimed
<1>12. CASE Tick
  <2>1. \A v \in Workers : pc[v] \in Claimed => lease[v] > 1 /\ lease[v] \in Nat
    BY <1>12, ConstantsAssumption DEF Tick
  <2>2. \A n \in Nat : n > 1 => Decrement(n) > 0
    BY DEF Decrement
  <2>3. \A v \in Workers : pc[v] \in Claimed =>
          wait'[cur[v].id] = lease'[v] /\ lease'[v] > 0
    BY <1>12, <1>c, <2>1, <2>2 DEF Tick
  <2> QED BY <1>12, <2>3 DEF Tick
<1> QED
  BY <1>1, <1>2, <1>3, <1>4, <1>5, <1>6, <1>7, <1>8, <1>9, <1>10, <1>11, <1>12
  DEF Next, Step

-----------------------------------------------------------------------------
(* The inductive invariant holds in every reachable state of the table and *)
(* its workers.                                                            *)
THEOREM Invariance == Spec => []IInv
<1>1. Init => IInv
  <2> SUFFICES ASSUME Init PROVE IInv
    OBVIOUS
  <2>1. TypeOK
    BY NumberFacts, ConstantsAssumption DEF Init, TypeOK, Statuses
  <2>2. MemoryInv /\ AcceptedInv /\ LeaseInv
    BY DEF Init, MemoryInv, AcceptedInv, LeaseInv, Claimed
  <2>3. BudgetInv
    BY ConstantsAssumption DEF Init, BudgetInv, Claimed
  <2> QED BY <2>1, <2>2, <2>3 DEF IInv
<1>2. IInv /\ [Next]_vars => IInv'
  BY TypeStep, MemoryStep, AcceptedStep, BudgetStep, LeaseStep DEF IInv
<1> QED BY <1>1, <1>2, PTL DEF Spec

(* The variables of the table and of the workers keep their types.         *)
THEOREM TypeCorrect == Spec => []TypeOK
<1>1. IInv => TypeOK
  BY DEF IInv
<1> QED BY <1>1, Invariance, PTL

(* published marks only what the bus has accepted.                         *)
THEOREM AtLeastOnce == Spec => []PublishedWasAccepted
<1>1. IInv => PublishedWasAccepted
  BY DEF IInv, AcceptedInv, PublishedWasAccepted
<1> QED BY <1>1, Invariance, PTL

(* retry writes DEAD only after MaxAttempts failed publishes.              *)
THEOREM FullBudget == Spec => []DeadAfterBudget
<1>1. IInv => DeadAfterBudget
  <2> SUFFICES ASSUME IInv, NEW m \in Messages, status[m] = "DEAD"
               PROVE  failures[m] >= MaxAttempts
    BY DEF DeadAfterBudget
  <2> QED BY ConstantsAssumption DEF IInv, BudgetInv, TypeOK
<1> QED BY <1>1, Invariance, PTL

(* The conditional claim excludes every other worker while its lease lasts.*)
THEOREM MutualExclusion == Spec => []ExclusiveClaim
<1>1. IInv => ExclusiveClaim
  BY DEF IInv, LeaseInv, ExclusiveClaim
<1> QED BY <1>1, Invariance, PTL

(* The row that a worker marks or retries is PROCESSING, so neither        *)
(* statement can touch a row that is already settled.                      *)
THEOREM NoReopening == Spec => SettledIsFinal
<1>1. IInv /\ [Next]_vars =>
        [~AllowOverrun =>
           \A m \in Messages : status[m] \in Settled => status'[m] = status[m]]_vars
  <2> SUFFICES ASSUME IInv, [Next]_vars, ~AllowOverrun,
                      NEW m \in Messages, status[m] \in Settled
               PROVE  status'[m] = status[m]
    OBVIOUS
  <2> USE DEF IInv, TypeOK, Settled
  <2>1. CASE UNCHANGED vars
    BY <2>1 DEF vars, rowVars
  <2>2. ASSUME NEW k \in Messages, Enqueue(k) PROVE status'[m] = status[m]
    BY <2>2 DEF Enqueue
  <2>3. ASSUME NEW w \in Workers, RecoverExpiredClaims(w) PROVE status'[m] = status[m]
    BY <2>3 DEF RecoverExpiredClaims, Expired
  <2>4. ASSUME NEW w \in Workers, Claim(w) PROVE status'[m] = status[m]
    BY <2>4, ClaimCases
  <2>5. ASSUME NEW w \in Workers, Published(w) \/ Retry(w) PROVE status'[m] = status[m]
    <3>1. status[cur[w].id] = "PROCESSING"
      BY <2>5 DEF Published, Retry, StatusAfter, LeaseInv, Claimed
    <3> QED BY <2>5, <3>1 DEF Published, Retry, StatusAfter
  <2>6. ASSUME NEW w \in Workers,
               Pending(w) \/ EndBatch(w) \/ PublishOk(w) \/ PublishError(w) \/ Abort(w)
        PROVE  status'[m] = status[m]
    BY <2>6 DEF Pending, EndBatch, PublishOk, PublishError, Abort, rowVars
  <2>7. CASE Tick
    BY <2>7 DEF Tick
  <2> QED BY <2>1, <2>2, <2>3, <2>4, <2>5, <2>6, <2>7 DEF Next, Step
<1> QED BY <1>1, Invariance, PTL DEF Spec, SettledIsFinal

-----------------------------------------------------------------------------
\* Writing one status is writing one state of Outbox.
LEMMA StateOfUpdate ==
  ASSUME status \in [Messages -> Statuses], NEW m \in Messages, NEW s \in Statuses,
         status' = [status EXCEPT ![m] = s]
  PROVE  [k \in Messages |-> OutboxState(status[k])]' =
           [[k \in Messages |-> OutboxState(status[k])] EXCEPT ![m] = OutboxState(s)]
BY DEF Statuses

\* The refinement mapping, row status by row status.
LEMMA OutboxStates ==
  /\ OutboxState("NONE") = "none"
  /\ OutboxState("PENDING") = "open"
  /\ OutboxState("PROCESSING") = "open"
  /\ OutboxState("PUBLISHED") = "sent"
  /\ OutboxState("DEAD") = "dead"
BY DEF OutboxState

(* While no worker outlives its lease, every step of the table and its     *)
(* workers is a step of Outbox or leaves Outbox unchanged.                 *)
LEMMA OutboxStep ==
  ASSUME ~AllowOverrun, IInv, [Next]_vars
  PROVE  [O!Next]_(O!outboxVars)
<1> USE DEF IInv, TypeOK
<1> DEFINE st == [k \in Messages |-> OutboxState(status[k])]
<1>0. \A k \in Messages : st[k] = OutboxState(status[k])
  OBVIOUS
<1>s. ASSUME UNCHANGED status PROVE st' = st
  BY <1>s
<1>1. CASE UNCHANGED vars
  BY <1>1 DEF vars, rowVars, busVars, O!outboxVars
<1>2. ASSUME NEW m \in Messages, Enqueue(m) PROVE O!Enqueue(m)
  <2>1. st' = [st EXCEPT ![m] = OutboxState("PENDING")]
    BY <1>2, StateOfUpdate DEF Enqueue, Statuses
  <2> QED BY <1>0, <1>2, <2>1, OutboxStates DEF Enqueue, busVars, O!Enqueue
<1>3. ASSUME NEW w \in Workers, RecoverExpiredClaims(w) PROVE UNCHANGED O!outboxVars
  <2>1. \A k \in Messages : OutboxState(status'[k]) = OutboxState(status[k])
    BY <1>3, OutboxStates DEF RecoverExpiredClaims, Expired
  <2> QED BY <1>3, <2>1 DEF RecoverExpiredClaims, Expired, busVars, O!outboxVars
<1>4. ASSUME NEW w \in Workers, Claim(w) PROVE UNCHANGED O!outboxVars
  <2>1. UNCHANGED accepted
    BY <1>4 DEF Claim, ClaimItem, busVars
  <2>2. \A k \in Messages : OutboxState(status'[k]) = OutboxState(status[k])
    BY <1>4, ClaimCases, OutboxStates
  <2> QED BY <2>1, <2>2 DEF O!outboxVars
<1>5. ASSUME NEW w \in Workers, PublishOk(w) \/ PublishError(w)
      PROVE  O!Deliver(cur[w].id) \/ UNCHANGED O!outboxVars
  <2>1. status[cur[w].id] = "PROCESSING" /\ cur[w].id \in Messages
    BY <1>5, CurFacts DEF PublishOk, PublishError, LeaseInv, Claimed
  <2>2. UNCHANGED status
    BY <1>5 DEF PublishOk, PublishError, rowVars
  <2>3. accepted' = accepted \/ accepted' = accepted \cup {cur[w].id}
    BY <1>5 DEF PublishOk, PublishError
  <2> QED BY <1>0, <2>1, <2>2, <2>3, OutboxStates DEF O!Deliver, O!outboxVars
<1>6. ASSUME NEW w \in Workers, Published(w) PROVE O!Confirm(cur[w].id)
  <2>1. status[cur[w].id] = "PROCESSING" /\ cur[w].id \in Messages /\ cur[w].id \in accepted
    BY <1>6, CurFacts DEF Published, LeaseInv, AcceptedInv, Claimed
  <2>2. st' = [st EXCEPT ![cur[w].id] = OutboxState("PUBLISHED")]
    BY <1>6, <2>1, StateOfUpdate DEF Published, Statuses
  <2> QED BY <1>0, <1>6, <2>1, <2>2, OutboxStates DEF Published, busVars, O!Confirm
<1>7. ASSUME NEW w \in Workers, Retry(w)
      PROVE  O!GiveUp(cur[w].id) \/ UNCHANGED O!outboxVars
  <2>1. status[cur[w].id] = "PROCESSING" /\ cur[w].id \in Messages /\ UNCHANGED accepted
    BY <1>7, CurFacts DEF Retry, StatusAfter, LeaseInv, Claimed, busVars
  <2>2. CASE status' = [status EXCEPT ![cur[w].id] = "DEAD"]
    <3>1. st' = [st EXCEPT ![cur[w].id] = OutboxState("DEAD")]
      BY <2>1, <2>2, StateOfUpdate DEF Statuses
    <3> QED BY <1>0, <2>1, <3>1, OutboxStates DEF O!GiveUp
  <2>3. CASE status' = [status EXCEPT ![cur[w].id] = "PENDING"]
    <3>1. \A k \in Messages : OutboxState(status'[k]) = OutboxState(status[k])
      BY <2>1, <2>3, OutboxStates
    <3> QED BY <2>1, <3>1 DEF O!outboxVars
  <2> QED BY <1>7, <2>2, <2>3 DEF Retry, StatusAfter
<1>8. ASSUME NEW w \in Workers, Pending(w) \/ EndBatch(w) \/ Abort(w)
      PROVE  UNCHANGED O!outboxVars
  BY <1>8 DEF Pending, EndBatch, Abort, rowVars, busVars, O!outboxVars
<1>9. CASE Tick
  BY <1>9 DEF Tick, busVars, O!outboxVars
<1>10. \A w \in Workers : pc[w] \in Claimed => cur[w].id \in Messages
  BY CurFacts
<1>11. \A w \in Workers :
        PublishOk(w) \/ PublishError(w) \/ Published(w) \/ Retry(w) => pc[w] \in Claimed
  BY DEF PublishOk, PublishError, Published, Retry, StatusAfter, Claimed
<1> QED
  BY <1>1, <1>2, <1>3, <1>4, <1>5, <1>6, <1>7, <1>8, <1>9, <1>10, <1>11
  DEF Next, Step, O!Next

(* The table with its workers implements the abstract outbox.              *)
THEOREM Refinement == ASSUME ~AllowOverrun PROVE Spec => ImplementsOutbox
<1>1. Init => O!Init
  BY OutboxStates DEF Init, O!Init
<1>2. IInv /\ [Next]_vars => [O!Next]_(O!outboxVars)
  BY OutboxStep
<1> QED BY <1>1, <1>2, Invariance, PTL DEF Spec, ImplementsOutbox, O!Spec

-----------------------------------------------------------------------------
(***************************************************************************)
(* The consumer, for every number of runners, copies and events.  What     *)
(* makes an event take effect once is not Seen, which several runners pass *)
(* together, but the primary key that Mark inserts: at most one runner is  *)
(* between Mark and the commit of an event, and only while the event has   *)
(* no row.  A row, once committed, is never written again, so what a       *)
(* runner learnt from it before its Ack stays true.                        *)
(***************************************************************************)

\* The bus shows a copy only while it may be delivered once more.
DeliveryInv ==
  \A c \in Copies : bus[c] \in {"none", "visible"} => attempt[c] < MaxDelivery

\* A runner that is not waiting has a delivery.
HeldInv == \A r \in Runners : at[r] # "receive" => held[r] \in Copies

\* The handler's effects and the row of an event are committed together.
OnceInv == \A e \in Events : effects[e] = IF consumed[e] = NoBody THEN 0 ELSE 1

\* Mark holds the key of its event until the transaction ends.
KeyInv ==
  \A r \in Runners : at[r] = "commit" =>
    /\ consumed[Ev(r)] = NoBody
    /\ \A q \in Runners : at[q] = "commit" /\ Ev(q) = Ev(r) => q = r

\* What is acknowledged, or about to be, has been applied with its own body.
AppliedInv ==
  /\ \A r \in Runners : at[r] = "ack" => consumed[Ev(r)] = Hash(r)
  /\ \A c \in Copies : bus[c] = "acked" => consumed[EventOf[c]] = BodyOf[c]

(* The inductive invariant.                                                *)
ConsumerInv ==
  ConsumerTypeOK /\ DeliveryInv /\ HeldInv /\ OnceInv /\ KeyInv /\ AppliedInv

LEMMA ConsumerInitInv ==
  ConsumerInit => ConsumerInv
BY CopiesAssumption
   DEF ConsumerInit, ConsumerInv, ConsumerTypeOK, InTx, DeliveryInv, HeldInv, OnceInv, KeyInv, AppliedInv

\* A runner that gives up its delivery takes nothing back.
LEMMA DropKeeps ==
  ASSUME ConsumerInv, NEW r \in Runners, Drop(r), UNCHANGED <<attempt, dbVars>>,
         bus' \in [Copies -> {"none", "visible", "hidden", "acked", "dlq"}],
         \A c \in Copies : bus'[c] # bus[c] => bus'[c] = "acked" /\ consumed[EventOf[c]] = BodyOf[c]
  PROVE  ConsumerInv'
<1>0. MaxDelivery \in Nat
  BY CopiesAssumption
<1>1. /\ at' = [at EXCEPT ![r] = "receive"] /\ held' = [held EXCEPT ![r] = NoCopy]
      /\ token' = [token EXCEPT ![r] = 0] /\ UNCHANGED <<attempt, consumed, effects>>
  BY DEF Drop, Goto, dbVars
<1>2. ConsumerTypeOK'
  BY <1>0, <1>1 DEF ConsumerInv, ConsumerTypeOK
<1>3. \A q \in Runners : at'[q] # "receive" => at'[q] = at[q] /\ held'[q] = held[q]
  BY <1>1 DEF ConsumerInv, ConsumerTypeOK
<1>4. DeliveryInv' /\ HeldInv' /\ OnceInv'
  BY <1>1, <1>3 DEF ConsumerInv, DeliveryInv, HeldInv, OnceInv
<1>5. KeyInv' /\ AppliedInv'
  BY <1>1, <1>3 DEF ConsumerInv, KeyInv, AppliedInv, Ev, Hash
<1> QED
  BY <1>2, <1>4, <1>5 DEF ConsumerInv

\* A step inside the transaction that writes nothing changes what r does next.
LEMMA MoveKeeps ==
  ASSUME ConsumerInv, NEW r \in Runners, at[r] # "receive", NEW label \in {"handle", "mark", "retry", "ack", "commit"},
         Goto(r, label), UNCHANGED <<copyVars, dbVars, held, token>>,
         label = "ack" => consumed[Ev(r)] = Hash(r),
         label = "commit" => /\ consumed[Ev(r)] = NoBody
                             /\ \A q \in Runners \ {r} : ~(at[q] = "commit" /\ Ev(q) = Ev(r))
  PROVE  ConsumerInv'
<1>1. at' = [at EXCEPT ![r] = label] /\ UNCHANGED <<bus, attempt, consumed, effects, held, token>>
  BY DEF Goto, copyVars, dbVars
<1>2. \A q \in Runners : Ev(q)' = Ev(q) /\ Hash(q)' = Hash(q)
  BY <1>1 DEF Ev, Hash
<1>3. at'[r] = label /\ \A q \in Runners \ {r} : at'[q] = at[q]
  BY <1>1 DEF ConsumerInv, ConsumerTypeOK
<1>4. ConsumerTypeOK' /\ DeliveryInv' /\ HeldInv' /\ OnceInv'
  BY <1>1, <1>3 DEF ConsumerInv, ConsumerTypeOK, InTx, DeliveryInv, HeldInv, OnceInv
<1>5. KeyInv'
  BY <1>1, <1>2, <1>3 DEF ConsumerInv, KeyInv
<1>6. AppliedInv'
  BY <1>1, <1>2, <1>3 DEF ConsumerInv, AppliedInv
<1> QED
  BY <1>4, <1>5, <1>6 DEF ConsumerInv

\* A commit, whether its answer arrives or not.
LEMMA CommitKeeps ==
  ASSUME ConsumerInv, NEW r \in Runners, NEW label \in {"ack", "retry"}, CommitTo(r, label)
  PROVE  ConsumerInv'
<1> DEFINE e == Ev(r)
<1>1. /\ at[r] = "commit" /\ at' = [at EXCEPT ![r] = label]
      /\ consumed' = [consumed EXCEPT ![e] = Hash(r)] /\ effects' = [effects EXCEPT ![e] = @ + 1]
      /\ UNCHANGED <<bus, attempt, held, token>>
  BY DEF CommitTo, Goto, copyVars
<1>2. held[r] \in Copies /\ e \in Events /\ Hash(r) \in Bodies /\ Hash(r) # NoBody
  BY <1>1, CopiesAssumption DEF ConsumerInv, HeldInv, Ev, Hash
<1>3. consumed[e] = NoBody /\ effects[e] = 0
  BY <1>1, <1>2 DEF ConsumerInv, KeyInv, OnceInv
<1>4. \A q \in Runners : Ev(q)' = Ev(q) /\ Hash(q)' = Hash(q)
  BY <1>1 DEF Ev, Hash
<1>5. at'[r] = label /\ \A q \in Runners \ {r} : at'[q] = at[q]
  BY <1>1 DEF ConsumerInv, ConsumerTypeOK
<1>6. /\ consumed'[e] = Hash(r) /\ effects'[e] = 1
      /\ \A d \in Events \ {e} : consumed'[d] = consumed[d] /\ effects'[d] = effects[d]
  BY <1>1, <1>2, <1>3 DEF ConsumerInv, ConsumerTypeOK
<1> HIDE DEF e
<1>7. ConsumerTypeOK'
  BY <1>1, <1>2, <1>5 DEF ConsumerInv, ConsumerTypeOK, InTx
<1>8. DeliveryInv' /\ HeldInv' /\ OnceInv'
  BY <1>1, <1>2, <1>5, <1>6 DEF ConsumerInv, DeliveryInv, HeldInv, OnceInv
<1>9. KeyInv'
  <2> SUFFICES ASSUME NEW q \in Runners, at'[q] = "commit"
               PROVE  /\ consumed'[Ev(q)] = NoBody
                      /\ \A p \in Runners : at'[p] = "commit" /\ Ev(p) = Ev(q) => p = q
    BY <1>4 DEF KeyInv
  <2>1. q # r /\ at[q] = "commit"
    BY <1>5
  <2>2. Ev(q) # e
    BY <2>1, <1>1 DEF ConsumerInv, KeyInv, e
  <2>3. Ev(q) \in Events
    BY <2>1, CopiesAssumption DEF ConsumerInv, HeldInv, Ev
  <2> QED
    BY <2>1, <2>2, <2>3, <1>5, <1>6 DEF ConsumerInv, KeyInv
<1>10. AppliedInv'
  <2>1. ASSUME NEW q \in Runners, at'[q] = "ack" PROVE consumed'[Ev(q)] = Hash(q)
    <3>1. CASE q = r
      BY <3>1, <1>6 DEF e
    <3>2. CASE q # r
      <4>1. consumed[Ev(q)] = Hash(q) /\ Ev(q) \in Events /\ Hash(q) # NoBody
        BY <2>1, <3>2, <1>5, CopiesAssumption DEF ConsumerInv, HeldInv, AppliedInv, Ev, Hash
      <4> QED
        BY <4>1, <1>3, <1>6
    <3> QED
      BY <3>1, <3>2
  <2>2. ASSUME NEW c \in Copies, bus'[c] = "acked" PROVE consumed'[EventOf[c]] = BodyOf[c]
    <3>1. consumed[EventOf[c]] = BodyOf[c] /\ EventOf[c] \in Events /\ BodyOf[c] # NoBody
      BY <2>2, <1>1, CopiesAssumption DEF ConsumerInv, AppliedInv
    <3> QED
      BY <3>1, <1>3, <1>6
  <2> QED
    BY <2>1, <2>2, <1>4 DEF AppliedInv
<1> QED
  BY <1>7, <1>8, <1>9, <1>10 DEF ConsumerInv

LEMMA ConsumerStepInv ==
  ConsumerInv /\ [ConsumerNext]_consumerVars => ConsumerInv'
<1> SUFFICES ASSUME ConsumerInv, [ConsumerNext]_consumerVars PROVE ConsumerInv'
  OBVIOUS
<1>0. MaxDelivery \in Nat
  BY CopiesAssumption
<1>1. ASSUME NEW c \in Copies, Publish(c) \/ Reappear(c) PROVE ConsumerInv'
  <2>1. /\ bus[c] \in {"none", "hidden"} /\ bus' = [bus EXCEPT ![c] = bus'[c]]
        /\ bus'[c] \in {"visible", "dlq"}
        /\ bus'[c] = "visible" => attempt[c] < MaxDelivery
        /\ UNCHANGED <<attempt, consumed, effects, at, held, token>>
    BY <1>1 DEF Publish, Reappear, dbVars, runnerVars, ConsumerInv, ConsumerTypeOK, DeliveryInv
  <2>2. ConsumerTypeOK' /\ DeliveryInv'
    BY <2>1 DEF ConsumerInv, ConsumerTypeOK, DeliveryInv
  <2>3. HeldInv' /\ OnceInv' /\ KeyInv' /\ AppliedInv'
    BY <2>1 DEF ConsumerInv, ConsumerTypeOK, HeldInv, OnceInv, KeyInv, AppliedInv, Ev, Hash
  <2> QED
    BY <2>2, <2>3 DEF ConsumerInv
<1>2. ASSUME NEW r \in Runners, NEW c \in Copies, Receive(r, c) PROVE ConsumerInv'
  <2>1. /\ at[r] = "receive" /\ at' = [at EXCEPT ![r] = at'[r]] /\ at'[r] \in {"retry", "seen"}
        /\ bus[c] = "visible" /\ bus' = [bus EXCEPT ![c] = "hidden"]
        /\ attempt' = [attempt EXCEPT ![c] = @ + 1] /\ held' = [held EXCEPT ![r] = c]
        /\ token' = [token EXCEPT ![r] = attempt[c] + 1] /\ UNCHANGED <<consumed, effects>>
    BY <1>2 DEF Receive, Goto, dbVars, ConsumerInv, ConsumerTypeOK
  <2>2. attempt[c] + 1 \in 0..MaxDelivery
    BY <2>1, <1>0 DEF ConsumerInv, ConsumerTypeOK, DeliveryInv
  <2>3. ConsumerTypeOK' /\ DeliveryInv' /\ HeldInv' /\ OnceInv'
    BY <2>1, <2>2 DEF ConsumerInv, ConsumerTypeOK, InTx, DeliveryInv, HeldInv, OnceInv
  <2>4. \A q \in Runners : at'[q] \in {"commit", "ack"} => at'[q] = at[q] /\ held'[q] = held[q]
    BY <2>1 DEF ConsumerInv, ConsumerTypeOK
  <2>5. KeyInv' /\ AppliedInv'
    BY <2>1, <2>4 DEF ConsumerInv, ConsumerTypeOK, KeyInv, AppliedInv, Ev, Hash
  <2> QED
    BY <2>3, <2>5 DEF ConsumerInv
<1>3. ASSUME NEW r \in Runners, Seen(r) \/ Handle(r) \/ Mark(r) \/ Fail(r) PROVE ConsumerInv'
  <2>1. CASE Seen(r)
    BY <2>1, MoveKeeps DEF Seen
  <2>2. CASE Handle(r)
    BY <2>2, MoveKeeps DEF Handle
  <2>3. CASE Mark(r)
    BY <2>3, MoveKeeps DEF Mark
  <2>4. CASE Fail(r)
    BY <2>4, MoveKeeps DEF Fail, InTx
  <2> QED
    BY <1>3, <2>1, <2>2, <2>3, <2>4
<1>4. ASSUME NEW r \in Runners, Commit(r) \/ CommitUnknown(r) PROVE ConsumerInv'
  BY <1>4, CommitKeeps DEF Commit, CommitUnknown
<1>5. ASSUME NEW r \in Runners, Ack(r) PROVE ConsumerInv'
  <2>1. held[r] \in Copies /\ consumed[EventOf[held[r]]] = BodyOf[held[r]]
    BY <1>5 DEF Ack, ConsumerInv, HeldInv, AppliedInv, Ev, Hash
  <2>2. bus' = [bus EXCEPT ![held[r]] = "acked"]
    BY <1>5 DEF Ack
  <2>3. /\ bus' \in [Copies -> {"none", "visible", "hidden", "acked", "dlq"}]
        /\ \A c \in Copies : bus'[c] # bus[c] => bus'[c] = "acked" /\ c = held[r]
    BY <2>1, <2>2 DEF ConsumerInv, ConsumerTypeOK
  <2> QED
    BY <1>5, <2>1, <2>3, DropKeeps DEF Ack
<1>6. ASSUME NEW r \in Runners, AckError(r) \/ RetryDelivery(r) \/ Crash(r) PROVE ConsumerInv'
  <2>1. Drop(r) /\ UNCHANGED <<bus, attempt, dbVars>>
    BY <1>6 DEF AckError, RetryDelivery, Crash, copyVars
  <2>2. bus' \in [Copies -> {"none", "visible", "hidden", "acked", "dlq"}]
    BY <2>1 DEF ConsumerInv, ConsumerTypeOK
  <2> QED
    BY <2>1, <2>2, DropKeeps
<1>7. CASE UNCHANGED consumerVars
  BY <1>7 DEF consumerVars, copyVars, dbVars, runnerVars, ConsumerInv, ConsumerTypeOK, DeliveryInv, HeldInv,
              OnceInv, KeyInv, AppliedInv, Ev, Hash
<1> QED
  BY <1>1, <1>2, <1>3, <1>4, <1>5, <1>6, <1>7 DEF ConsumerNext, Process

LEMMA ConsumerInvariance ==
  ConsumerSpec => []ConsumerInv
<1> QED
  BY ConsumerInitInv, ConsumerStepInv, PTL DEF ConsumerSpec

(***************************************************************************)
(* Runners, copies and rows stay well typed; above all, no copy is ever    *)
(* delivered more often than the bus allows.                               *)
(***************************************************************************)
THEOREM ConsumerTypes == ConsumerSpec => []ConsumerTypeOK
<1>1. ConsumerInv => ConsumerTypeOK
  BY DEF ConsumerInv
<1> QED
  BY <1>1, ConsumerInvariance, PTL

(***************************************************************************)
(* process commits the handler's effects at most once per event, for any   *)
(* number of runners that receive copies of it at the same time.           *)
(***************************************************************************)
THEOREM EffectsOnce == ConsumerSpec => []ExactlyOnceEffect
<1>1. ConsumerInv => ExactlyOnceEffect
  BY DEF ConsumerInv, OnceInv, ExactlyOnceEffect
<1> QED
  BY <1>1, ConsumerInvariance, PTL

(***************************************************************************)
(* A delivery that the bus has been told to forget was applied, with its   *)
(* own body: process never acknowledges before the commit and never takes  *)
(* an identity conflict for a duplicate.                                   *)
(***************************************************************************)
THEOREM AckAfterCommit == ConsumerSpec => []AckedWasApplied
<1>1. ConsumerInv => AckedWasApplied
  BY CopiesAssumption DEF ConsumerInv, OnceInv, AppliedInv, AckedWasApplied
<1> QED
  BY <1>1, ConsumerInvariance, PTL

-----------------------------------------------------------------------------
(***************************************************************************)
(* The scheduler, for every number of instances and every time to live.    *)
(* The lock is safe because the lease that an instance believes in and the *)
(* key in the cache are the same countdown: as long as an instance has     *)
(* some of its lease left, the key holds its token and expires at the same *)
(* tick.  Tokens in use are distinct, so nobody else can delete the key.   *)
(***************************************************************************)

\* An instance has a token exactly while it works, and a lease only then.
WorkingInv ==
  \A i \in Instances :
    /\ doing[i] = "waiting" <=> lockToken[i] = 0
    /\ doing[i] = "waiting" => left[i] = 0

\* What an instance has left of its lease is what the key has left.
LeaseIsKey ==
  \A i \in Instances : left[i] > 0 => holder = lockToken[i] /\ ttl = left[i]

\* No two instances work under the same token.
TokensDiffer ==
  \A i, j \in Instances : lockToken[i] = lockToken[j] /\ lockToken[i] # 0 => i = j

(* The inductive invariant.                                                *)
JobInv == JobTypeOK /\ WorkingInv /\ LeaseIsKey /\ TokensDiffer

\* Fewer tokens are in use than there are, so Acquire always finds a new one.
LEMMA NewTokenExists ==
  ASSUME JobTypeOK, ttl = 0
  PROVE  /\ NewToken \in Tokens \ {0}
         /\ \A i \in Instances : NewToken # lockToken[i]
<1> DEFINE Used == {lockToken[i] : i \in Instances}
<1> DEFINE Count == Cardinality(Instances)
<1>1. IsFiniteSet(Instances) /\ Count \in Nat
  BY SchedulerAssumption, FS_CardinalityType
<1>2. lockToken \in Surjection(Instances, Used)
  BY DEF Surjection, JobTypeOK
<1>3. IsFiniteSet(Used) /\ Cardinality(Used) <= Count
  BY <1>1, <1>2, FS_Surjection
<1>4. IsFiniteSet(1..(Count + 1)) /\ Cardinality(1..(Count + 1)) = Count + 1
  BY <1>1, FS_Interval
<1>5. ~(1..(Count + 1) \subseteq Used)
  <2>1. Cardinality(Used) \in Nat
    BY <1>3, FS_CardinalityType
  <2>2. SUFFICES ASSUME 1..(Count + 1) \subseteq Used PROVE FALSE
    OBVIOUS
  <2>3. Cardinality(1..(Count + 1)) <= Cardinality(Used)
    BY <2>2, <1>3, FS_Subset
  <2> QED
    BY <2>1, <2>3, <1>1, <1>3, <1>4
<1>6. PICK t \in 1..(Count + 1) : t \notin Used
  BY <1>5
<1>7. t \in Tokens \ {0}
  BY <1>1, <1>6 DEF Tokens
<1>8. NewToken \in Tokens \ {0} /\ NewToken \notin Used
  BY <1>6, <1>7 DEF NewToken
<1> QED
  BY <1>8

LEMMA JobInitInv ==
  JobInit => JobInv
BY SchedulerAssumption, FS_CardinalityType
   DEF JobInit, JobInv, JobTypeOK, WorkingInv, LeaseIsKey, TokensDiffer, Tokens

LEMMA JobStepInv ==
  JobInv /\ [JobNext]_jobVars => JobInv'
<1> SUFFICES ASSUME JobInv, [JobNext]_jobVars PROVE JobInv'
  OBVIOUS
<1>0. LockTtl \in Nat /\ LockTtl > 0 /\ MaxJobFaults \in Nat /\ Cardinality(Instances) \in Nat
  BY SchedulerAssumption, FS_CardinalityType
<1>t. JobTypeOK
  BY DEF JobInv
<1>1. ASSUME NEW i \in Instances, Acquire(i) PROVE JobInv'
  <2>1. ttl = 0 /\ doing[i] = "waiting"
    BY <1>1 DEF Acquire, SetNX, Free
  <2>2. NewToken \in Tokens \ {0} /\ \A j \in Instances : NewToken # lockToken[j]
    BY <2>1, <1>t, NewTokenExists
  <2>3. \A j \in Instances : left[j] = 0
    BY <2>1 DEF JobInv, LeaseIsKey, JobTypeOK
  <2>4. /\ holder' = NewToken /\ ttl' = LockTtl /\ UNCHANGED jobFaults
        /\ lockToken' = [lockToken EXCEPT ![i] = NewToken]
        /\ left' = [left EXCEPT ![i] = LockTtl]
        /\ doing' = [doing EXCEPT ![i] = "running"]
    BY <1>1 DEF Acquire, SetNX
  <2> HIDE DEF NewToken
  <2>5. JobTypeOK'
    BY <2>2, <2>4, <1>0, <1>t DEF JobTypeOK
  <2>6. WorkingInv'
    BY <2>2, <2>4, <1>t DEF JobInv, WorkingInv, JobTypeOK
  <2>7. LeaseIsKey'
    BY <2>3, <2>4, <1>t DEF LeaseIsKey, JobTypeOK
  <2>8. TokensDiffer'
    BY <2>2, <2>4, <1>t DEF JobInv, TokensDiffer, JobTypeOK
  <2> QED
    BY <2>5, <2>6, <2>7, <2>8 DEF JobInv
<1>2. ASSUME NEW i \in Instances, AcquireUnknown(i) PROVE JobInv'
  <2>1. ttl = 0
    BY <1>2 DEF AcquireUnknown, SetNX, Free
  <2>2. NewToken \in Tokens
    BY <2>1, <1>t, NewTokenExists
  <2>3. \A j \in Instances : left[j] = 0
    BY <2>1 DEF JobInv, LeaseIsKey, JobTypeOK
  <2>4. /\ holder' = NewToken /\ ttl' = LockTtl
        /\ jobFaults < MaxJobFaults /\ jobFaults' = jobFaults + 1
        /\ UNCHANGED <<doing, lockToken, left>>
    BY <1>2 DEF AcquireUnknown, SetNX
  <2>5. JobTypeOK'
    BY <2>2, <2>4, <1>0, <1>t DEF JobTypeOK
  <2> QED
    BY <2>3, <2>4, <2>5 DEF JobInv, WorkingInv, LeaseIsKey, TokensDiffer
<1>3. ASSUME NEW i \in Instances, FinishJob(i) PROVE JobInv'
  BY <1>3 DEF FinishJob, JobInv, JobTypeOK, WorkingInv, LeaseIsKey, TokensDiffer
<1>4. ASSUME NEW i \in Instances, ReleaseLock(i) PROVE JobInv'
  <2>1. /\ lockToken' = [lockToken EXCEPT ![i] = 0] /\ left' = [left EXCEPT ![i] = 0]
        /\ doing' = [doing EXCEPT ![i] = "waiting"] /\ UNCHANGED <<holder, jobFaults>>
    BY <1>4 DEF ReleaseLock, Wait, CompareAndDelete
  <2>2. ttl' = ttl \/ (ttl' = 0 /\ holder = lockToken[i])
    BY <1>4 DEF ReleaseLock, CompareAndDelete, Matches
  <2>3. doing[i] = "releasing" /\ lockToken[i] # 0
    BY <1>4 DEF ReleaseLock, JobInv, WorkingInv
  <2>4. JobTypeOK' /\ WorkingInv' /\ TokensDiffer'
    BY <2>1, <2>2, <1>0 DEF JobInv, JobTypeOK, WorkingInv, TokensDiffer, Tokens
  <2>5. LeaseIsKey'
    BY <2>1, <2>2, <2>3, <1>t DEF JobInv, LeaseIsKey, TokensDiffer, JobTypeOK
  <2> QED
    BY <2>4, <2>5 DEF JobInv
<1>5. ASSUME NEW i \in Instances, JobCrash(i) PROVE JobInv'
  <2>1. /\ lockToken' = [lockToken EXCEPT ![i] = 0] /\ left' = [left EXCEPT ![i] = 0]
        /\ doing' = [doing EXCEPT ![i] = "waiting"] /\ UNCHANGED <<holder, ttl>>
        /\ jobFaults < MaxJobFaults /\ jobFaults' = jobFaults + 1
    BY <1>5 DEF JobCrash, Wait
  <2> QED
    BY <2>1, <1>0 DEF JobInv, JobTypeOK, WorkingInv, LeaseIsKey, TokensDiffer, Tokens
<1>6. CASE JobTick
  BY <1>6, <1>0 DEF JobTick, OneLess, JobInv, JobTypeOK, WorkingInv, LeaseIsKey, TokensDiffer
<1>7. CASE UNCHANGED jobVars
  BY <1>7 DEF jobVars, JobInv, JobTypeOK, WorkingInv, LeaseIsKey, TokensDiffer
<1> QED
  BY <1>1, <1>2, <1>3, <1>4, <1>5, <1>6, <1>7 DEF JobNext, JobStep

LEMMA JobInvariance ==
  JobSpec => []JobInv
<1> QED
  BY JobInitInv, JobStepInv, PTL DEF JobSpec

(***************************************************************************)
(* Every behaviour keeps the lock, the tokens and the leases well typed.   *)
(***************************************************************************)
THEOREM JobTypes == JobSpec => []JobTypeOK
<1>1. JobInv => JobTypeOK
  BY DEF JobInv
<1> QED
  BY <1>1, JobInvariance, PTL

LEMMA JobInvGivesAtMostOne ==
  JobInv => AtMostOne
<1> SUFFICES ASSUME JobInv PROVE AtMostOne
  OBVIOUS
<1> DEFINE Live == {i \in Running : left[i] > 0}
<1>1. ASSUME NEW i \in Live, NEW j \in Live PROVE i = j
  <2>1. i \in Instances /\ j \in Instances /\ doing[i] = "running" /\ left[i] > 0 /\ left[j] > 0
    BY DEF Running
  <2>2. holder = lockToken[i] /\ holder = lockToken[j] /\ lockToken[i] # 0
    BY <2>1 DEF JobInv, LeaseIsKey, WorkingInv
  <2> QED
    BY <2>1, <2>2 DEF JobInv, TokensDiffer
<1>2. CASE Live = {}
  BY <1>2, FS_EmptySet DEF AtMostOne
<1>3. CASE Live # {}
  <2>1. PICK i : i \in Live
    BY <1>3
  <2>2. Live = {i}
    BY <2>1, <1>1
  <2>3. Cardinality({i}) = 1
    BY FS_Singleton
  <2> QED
    BY <2>2, <2>3 DEF AtMostOne
<1> QED
  BY <1>2, <1>3

(***************************************************************************)
(* RunDistributed executes a job on at most one instance among those whose *)
(* lease has not run out, for every number of instances, whatever answers  *)
(* of SetNX are lost and whoever dies or releases late.                    *)
(***************************************************************************)
THEOREM OneExecution == JobSpec => []AtMostOne
<1> QED
  BY JobInvGivesAtMostOne, JobInvariance, PTL

(***************************************************************************)
(* CompareAndDelete by one instance never ends the lock that another one   *)
(* has taken: only time does.                                              *)
(***************************************************************************)
THEOREM LockIsOwners == JobSpec => OnlyOwnerReleases
<1> DEFINE KeepsLock ==
      \A i \in Instances :
        doing[i] = "running" /\ doing'[i] = "running" /\ ttl > 0 /\ holder = lockToken[i]
          => ttl' > 0 \/ ttl = 1
<1>1. ASSUME JobInv, [JobNext]_jobVars PROVE [KeepsLock]_jobVars
  <2> SUFFICES ASSUME JobNext, NEW i \in Instances, doing[i] = "running", doing'[i] = "running",
                      ttl > 0, holder = lockToken[i]
               PROVE  ttl' > 0 \/ ttl = 1
    BY <1>1
  <2>1. ttl \in Nat
    BY <1>1, SchedulerAssumption DEF JobInv, JobTypeOK
  <2>2. CASE JobTick
    BY <2>1, <2>2 DEF JobTick, OneLess
  <2>3. ASSUME NEW j \in Instances, ReleaseLock(j) PROVE ttl' > 0
    <3>1. j # i
      BY <2>3, <1>1 DEF ReleaseLock, JobInv, JobTypeOK
    <3>2. lockToken[j] # 0 /\ lockToken[i] # lockToken[j]
      BY <3>1, <2>3, <1>1 DEF ReleaseLock, JobInv, WorkingInv, TokensDiffer
    <3> QED
      BY <3>2, <2>3 DEF ReleaseLock, CompareAndDelete, Matches
  <2>4. ASSUME NEW j \in Instances, Acquire(j) \/ AcquireUnknown(j) PROVE FALSE
    BY <2>4 DEF Acquire, AcquireUnknown, SetNX, Free
  <2>5. ASSUME NEW j \in Instances, FinishJob(j) \/ JobCrash(j) PROVE ttl' > 0
    BY <2>5 DEF FinishJob, JobCrash
  <2> QED
    BY <2>2, <2>3, <2>4, <2>5 DEF JobNext, JobStep
<1>2. JobSpec => [][KeepsLock]_jobVars
  BY <1>1, JobInvariance, PTL DEF JobSpec
<1> QED
  BY <1>2 DEF OnlyOwnerReleases

=============================================================================
