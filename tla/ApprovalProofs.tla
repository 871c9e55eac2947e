--------------------------- MODULE ApprovalProofs ---------------------------
(***************************************************************************)
(* Maker-checker, for every number of users, requests, tasks and payloads. *)
(*                                                                         *)
(* The quorum is counted over tasks, but the promise is about people.  The *)
(* two agree because no two tasks of a request belong to one user and none *)
(* to its maker, which Create establishes and Transfer keeps (PeopleInv).  *)
(* The counts themselves need no arithmetic on single decisions: Decide    *)
(* counts all tasks again, so that what ResolveStatus says of the new ones *)
(* is what the invariant says of the stored ones (Tally).                  *)
(***************************************************************************)
EXTENDS Approval, FiniteSetTheorems, TLAPS

\* Tasks belong to different users, none of them the maker of the request.
PeopleInv ==
  \A r \in Requests :
    /\ \A i \in Slots : assignee[r][i] = NoUser <=> decision[r][i] = "NONE"
    /\ \A i, j \in Slots : assignee[r][i] = assignee[r][j] /\ assignee[r][i] # NoUser => i = j
    /\ status[r] # "NONE" => /\ applicant[r] \in Users
                             /\ \A i \in Slots : assignee[r][i] # applicant[r]

\* The status s of a request that needs this many approvals agrees with its tasks.
Tally(s, need, tasks) ==
  /\ s # "NONE" => need >= 1
  /\ s = "PENDING" =>
       /\ Cardinality(TasksIn(tasks, "APPROVE")) < need
       /\ need <= Cardinality(TasksIn(tasks, "APPROVE")) + Cardinality(TasksIn(tasks, "PENDING"))
  /\ s = "APPROVED" => Cardinality(TasksIn(tasks, "APPROVE")) >= need
  /\ s \in {"PENDING", "APPROVED"} => TasksIn(tasks, "REJECT") = {}
  /\ s \in {"APPROVED", "REJECTED", "WITHDRAWN"} => TasksIn(tasks, "PENDING") = {}

TallyInv == \A r \in Requests : Tally(status[r], required[r], decision[r])

(* The inductive invariant.                                                *)
ApprovalInv == TypeOK /\ PeopleInv /\ TallyInv /\ ExecutedAsApproved

-----------------------------------------------------------------------------
\* The tasks of a request are finitely many.
LEMMA TasksFinite ==
  ASSUME NEW tasks, NEW s
  PROVE  /\ IsFiniteSet(TasksIn(tasks, s))
         /\ Cardinality(TasksIn(tasks, s)) \in Nat
         /\ Cardinality(TasksIn(tasks, s)) = 0 <=> TasksIn(tasks, s) = {}
<1>1. IsFiniteSet(Slots)
  BY ApprovalAssumption, FS_Interval DEF Slots
<1>2. TasksIn(tasks, s) \subseteq Slots
  BY DEF TasksIn
<1>3. IsFiniteSet(TasksIn(tasks, s))
  BY <1>1, <1>2, FS_Subset
<1> QED
  BY <1>3, FS_CardinalityType, FS_EmptySet

\* Cancelling the open tasks changes nothing about the decided ones.
LEMMA CancelKeepsDecisions ==
  ASSUME NEW tasks \in [Slots -> TaskStatuses]
  PROVE  /\ CancelPending(tasks) \in [Slots -> TaskStatuses]
         /\ \A s \in {"APPROVE", "REJECT"} : TasksIn(CancelPending(tasks), s) = TasksIn(tasks, s)
         /\ TasksIn(CancelPending(tasks), "PENDING") = {}
         /\ \A i \in Slots : CancelPending(tasks)[i] = "NONE" <=> tasks[i] = "NONE"
BY DEF CancelPending, TasksIn, TaskStatuses

\* What ResolveStatus answers is what the tasks say, once the open ones are cancelled or left.
LEMMA ResolveIsTally ==
  ASSUME NEW tasks \in [Slots -> TaskStatuses], NEW need \in Nat, need >= 1, NEW s,
         s = ResolveStatus(need, Cardinality(TasksIn(tasks, "APPROVE")),
                           Cardinality(TasksIn(tasks, "REJECT")),
                           Cardinality(TasksIn(tasks, "PENDING")))
  PROVE  /\ s \in {"PENDING", "APPROVED", "REJECTED"}
         /\ Tally(s, need, IF s = "PENDING" THEN tasks ELSE CancelPending(tasks))
<1> DEFINE approved == Cardinality(TasksIn(tasks, "APPROVE"))
           rejected == Cardinality(TasksIn(tasks, "REJECT"))
           pending == Cardinality(TasksIn(tasks, "PENDING"))
<1>1. approved \in Nat /\ rejected \in Nat /\ pending \in Nat
  BY TasksFinite
<1>2. rejected = 0 => TasksIn(tasks, "REJECT") = {}
  BY TasksFinite
<1>3. s \in {"PENDING", "APPROVED", "REJECTED"}
  BY DEF ResolveStatus
<1>4. s = "PENDING" => approved < need /\ need <= approved + pending /\ rejected = 0
  BY <1>1 DEF ResolveStatus
<1>5. s = "APPROVED" => approved >= need /\ rejected = 0
  BY <1>1 DEF ResolveStatus
<1> HIDE DEF approved, rejected, pending
<1>6. CASE s = "PENDING"
  BY <1>2, <1>4, <1>6 DEF Tally, approved, rejected, pending
<1>7. CASE s # "PENDING"
  <2>1. /\ TasksIn(CancelPending(tasks), "APPROVE") = TasksIn(tasks, "APPROVE")
        /\ TasksIn(CancelPending(tasks), "REJECT") = TasksIn(tasks, "REJECT")
        /\ TasksIn(CancelPending(tasks), "PENDING") = {}
    BY CancelKeepsDecisions
  <2> QED
    BY <2>1, <1>2, <1>3, <1>5, <1>7 DEF Tally, approved
<1> QED
  BY <1>3, <1>6, <1>7

-----------------------------------------------------------------------------
\* The tasks of a new request with n approvers: n of them are open.
LEMMA NewTasks ==
  ASSUME NEW n \in Slots, NEW tasks,
         tasks = [i \in Slots |-> IF i <= n THEN "PENDING" ELSE "NONE"]
  PROVE  /\ TasksIn(tasks, "APPROVE") = {} /\ TasksIn(tasks, "REJECT") = {}
         /\ Cardinality(TasksIn(tasks, "PENDING")) = n
<1>0. MaxTasks \in Nat /\ n \in Nat /\ n >= 1
  BY ApprovalAssumption DEF Slots
<1>1. TasksIn(tasks, "PENDING") = 1..n
  BY <1>0 DEF TasksIn, Slots
<1>2. Cardinality(1..n) = n
  BY <1>0, FS_Interval
<1> QED
  BY <1>1, <1>2 DEF TasksIn

LEMMA ApprovalInitInv ==
  Init => ApprovalInv
<1> SUFFICES ASSUME Init PROVE ApprovalInv
  OBVIOUS
<1>0. MaxTasks \in Nat
  BY ApprovalAssumption
<1>1. TypeOK
  BY <1>0 DEF Init, TypeOK, RequestStatuses, TaskStatuses
<1>2. PeopleInv /\ TallyInv /\ ExecutedAsApproved
  BY DEF Init, PeopleInv, TallyInv, Tally, ExecutedAsApproved
<1> QED
  BY <1>1, <1>2 DEF ApprovalInv

\* Create establishes the invariant of its request and touches no other.
LEMMA CreateKeeps ==
  ASSUME ApprovalInv, NEW r \in Requests, NEW u \in Users, NEW mode, NEW n \in Slots, NEW p \in Payloads,
         NEW k \in 1..n, NEW ids \in [1..n -> Users], Create(r, u, mode, k, n, ids, p)
  PROVE  ApprovalInv'
<1> DEFINE people == [i \in Slots |-> IF i <= n THEN ids[i] ELSE NoUser]
           tasks == [i \in Slots |-> IF i <= n THEN "PENDING" ELSE "NONE"]
<1>0. MaxTasks \in Nat /\ n \in Nat /\ k \in 1..MaxTasks /\ NoUser \notin Users
  BY ApprovalAssumption DEF Slots
<1>1. /\ status[r] = "NONE"
      /\ status' = [status EXCEPT ![r] = "PENDING"]
      /\ applicant' = [applicant EXCEPT ![r] = u]
      /\ required' = [required EXCEPT ![r] = k]
      /\ payload' = [payload EXCEPT ![r] = p]
      /\ assignee' = [assignee EXCEPT ![r] = people]
      /\ decision' = [decision EXCEPT ![r] = tasks]
      /\ UNCHANGED <<due, executed>>
  BY DEF Create, Insert
<1>2. /\ \A i \in 1..n : ids[i] # u
      /\ \A i, j \in 1..n : i # j => ids[i] # ids[j]
  BY DEF Create, ValidApprovers
<1>3. \A i \in Slots : i <= n => i \in 1..n
  BY <1>0 DEF Slots
<1>4. people \in [Slots -> Users \cup {NoUser}] /\ tasks \in [Slots -> TaskStatuses]
  BY <1>3 DEF TaskStatuses
<1>5. /\ \A i \in Slots : people[i] = NoUser <=> tasks[i] = "NONE"
      /\ \A i, j \in Slots : people[i] = people[j] /\ people[i] # NoUser => i = j
      /\ \A i \in Slots : people[i] # u
  BY <1>0, <1>2, <1>3
<1>6. Tally("PENDING", k, tasks)
  <2>1. /\ TasksIn(tasks, "APPROVE") = {} /\ TasksIn(tasks, "REJECT") = {}
        /\ Cardinality(TasksIn(tasks, "PENDING")) = n
    BY NewTasks
  <2> HIDE DEF tasks
  <2>2. Cardinality(TasksIn(tasks, "APPROVE")) = 0
    BY <2>1, FS_EmptySet
  <2>3. n \in Nat /\ k \in Nat /\ 1 <= k /\ k <= n
    BY <1>0
  <2> QED
    BY <2>1, <2>2, <2>3 DEF Tally
<1> HIDE DEF people, tasks
<1>7. TypeOK'
  BY <1>0, <1>1, <1>4 DEF ApprovalInv, TypeOK, RequestStatuses
<1>8. PeopleInv'
  BY <1>1, <1>5 DEF ApprovalInv, TypeOK, PeopleInv
<1>9. TallyInv'
  BY <1>1, <1>6 DEF ApprovalInv, TypeOK, TallyInv
<1>10. ExecutedAsApproved'
  <2>1. \A x \in executed : x.req \in Requests /\ x.req # r
    BY <1>1 DEF ApprovalInv, TypeOK, ExecutedAsApproved
  <2> QED
    BY <2>1, <1>1 DEF ApprovalInv, TypeOK, ExecutedAsApproved
<1> QED
  BY <1>7, <1>8, <1>9, <1>10 DEF ApprovalInv

\* A change of the status and the tasks of one PENDING request, which leaves everything else.
LEMMA OutcomeKeeps ==
  ASSUME ApprovalInv, NEW r \in Requests, status[r] = "PENDING",
         NEW s \in RequestStatuses \ {"NONE"}, NEW tasks \in [Slots -> TaskStatuses],
         status' = [status EXCEPT ![r] = s], decision' = [decision EXCEPT ![r] = tasks],
         UNCHANGED <<requestVars, due, assignee, executed>>,
         \A i \in Slots : tasks[i] = "NONE" <=> decision[r][i] = "NONE",
         Tally(s, required[r], tasks)
  PROVE  ApprovalInv'
<1>1. UNCHANGED <<applicant, required, payload, due, assignee, executed>>
  BY DEF requestVars
<1>2. TypeOK'
  BY <1>1 DEF ApprovalInv, TypeOK
<1>3. PeopleInv'
  BY <1>1 DEF ApprovalInv, TypeOK, PeopleInv
<1>4. TallyInv'
  BY <1>1 DEF ApprovalInv, TypeOK, TallyInv
<1>5. ExecutedAsApproved'
  <2>1. \A x \in executed : x.req \in Requests /\ x.req # r
    BY DEF ApprovalInv, TypeOK, ExecutedAsApproved
  <2> QED
    BY <2>1, <1>1 DEF ApprovalInv, TypeOK, ExecutedAsApproved
<1> QED
  BY <1>2, <1>3, <1>4, <1>5 DEF ApprovalInv

LEMMA DecideKeeps ==
  ASSUME ApprovalInv, NEW r \in Requests, NEW u \in Users, NEW i \in Slots,
         NEW choice \in {"APPROVE", "REJECT"}, Decide(r, u, i, choice)
  PROVE  ApprovalInv'
<1> DEFINE tasks == [decision[r] EXCEPT ![i] = choice]
           s == ResolveStatus(required[r], Cardinality(TasksIn(tasks, "APPROVE")),
                              Cardinality(TasksIn(tasks, "REJECT")),
                              Cardinality(TasksIn(tasks, "PENDING")))
           stored == IF s = "PENDING" THEN tasks ELSE CancelPending(tasks)
<1>1. /\ status[r] = "PENDING" /\ decision[r][i] = "PENDING"
      /\ status' = [status EXCEPT ![r] = s]
      /\ decision' = [decision EXCEPT ![r] = stored]
      /\ UNCHANGED <<requestVars, due, assignee, executed>>
  BY DEF Decide, Open
<1>2. tasks \in [Slots -> TaskStatuses] /\ \A j \in Slots : tasks[j] = "NONE" <=> decision[r][j] = "NONE"
  BY <1>1 DEF ApprovalInv, TypeOK, TaskStatuses
<1>3. required[r] \in Nat /\ required[r] >= 1
  BY <1>1, ApprovalAssumption DEF ApprovalInv, TypeOK, TallyInv, Tally
<1> HIDE DEF tasks
<1>4. s \in {"PENDING", "APPROVED", "REJECTED"} /\ Tally(s, required[r], stored)
  BY <1>2, <1>3, ResolveIsTally
<1>5. /\ stored \in [Slots -> TaskStatuses]
      /\ \A j \in Slots : stored[j] = "NONE" <=> decision[r][j] = "NONE"
  BY <1>2, CancelKeepsDecisions
<1> HIDE DEF s, stored
<1>6. s \in RequestStatuses \ {"NONE"}
  BY <1>4 DEF RequestStatuses
<1> QED
  BY <1>1, <1>4, <1>5, <1>6, OutcomeKeeps

LEMMA WithdrawKeeps ==
  ASSUME ApprovalInv, NEW r \in Requests, NEW u \in Users, Withdraw(r, u)
  PROVE  ApprovalInv'
<1>1. decision[r] \in [Slots -> TaskStatuses] /\ status[r] = "PENDING"
  BY DEF ApprovalInv, TypeOK, Withdraw
<1>2. /\ status' = [status EXCEPT ![r] = "WITHDRAWN"]
      /\ decision' = [decision EXCEPT ![r] = CancelPending(decision[r])]
      /\ UNCHANGED <<requestVars, due, assignee, executed>>
  BY DEF Withdraw
<1>3. required[r] >= 1
  BY <1>1 DEF ApprovalInv, TallyInv, Tally
<1>4. Tally("WITHDRAWN", required[r], CancelPending(decision[r]))
  BY <1>1, <1>3, CancelKeepsDecisions DEF Tally
<1>5. "WITHDRAWN" \in RequestStatuses \ {"NONE"}
  BY DEF RequestStatuses
<1> QED
  BY <1>1, <1>2, <1>4, <1>5, CancelKeepsDecisions, OutcomeKeeps

\* The sweep, over one request or over all: only requests that are PENDING change.
LEMMA ExpireKeeps ==
  ASSUME ApprovalInv, (\E r \in Requests : ExpireOne(r)) \/ ExpireAll
  PROVE  ApprovalInv'
<1>1. /\ status' \in [Requests -> RequestStatuses]
      /\ \A r \in Requests : status'[r] # status[r] => status[r] = "PENDING" /\ status'[r] = "EXPIRED"
      /\ UNCHANGED <<applicant, required, payload, due, assignee, decision, executed>>
  BY DEF ExpireOne, ExpireAll, Expiring, requestVars, ApprovalInv, TypeOK, RequestStatuses
<1>2. TypeOK' /\ PeopleInv'
  BY <1>1 DEF ApprovalInv, TypeOK, PeopleInv
<1>3. TallyInv'
  BY <1>1 DEF ApprovalInv, TallyInv, Tally
<1>4. ExecutedAsApproved'
  BY <1>1 DEF ApprovalInv, TypeOK, ExecutedAsApproved
<1> QED
  BY <1>2, <1>3, <1>4 DEF ApprovalInv

LEMMA TransferKeeps ==
  ASSUME ApprovalInv, NEW r \in Requests, NEW u \in Users, NEW i \in Slots, NEW v \in Users, Transfer(r, u, i, v)
  PROVE  ApprovalInv'
<1>1. /\ v # applicant[r] /\ \A j \in Slots : assignee[r][j] # v
      /\ assignee' = [assignee EXCEPT ![r][i] = v] /\ decision[r][i] = "PENDING"
      /\ UNCHANGED <<status, applicant, required, payload, due, decision, executed>>
  BY DEF Transfer, requestVars
<1>2. v # NoUser
  BY ApprovalAssumption
<1>3. /\ assignee'[r][i] = v /\ \A j \in Slots \ {i} : assignee'[r][j] = assignee[r][j]
      /\ \A q \in Requests \ {r} : assignee'[q] = assignee[q]
  BY <1>1 DEF ApprovalInv, TypeOK
<1>4. TypeOK'
  BY <1>1 DEF ApprovalInv, TypeOK
<1>5. PeopleInv'
  BY <1>1, <1>2, <1>3 DEF ApprovalInv, PeopleInv
<1>6. TallyInv' /\ ExecutedAsApproved'
  BY <1>1 DEF ApprovalInv, TallyInv, ExecutedAsApproved
<1> QED
  BY <1>4, <1>5, <1>6 DEF ApprovalInv

LEMMA ExecuteKeeps ==
  ASSUME ApprovalInv, NEW r \in Requests, NEW u \in Users, NEW p \in Payloads, Execute(r, u, p)
  PROVE  ApprovalInv'
<1>1. {x \in executed : x.req = r} = {}
  BY DEF Execute, Unclaimed
<1>2. Cardinality({x \in executed : x.req = r}) + 1 = 1
  BY <1>1, FS_EmptySet
<1>3. /\ applicant[r] = u /\ status[r] = "APPROVED" /\ payload[r] = p
      /\ executed' = executed \cup {[req |-> r, by |-> u, payload |-> p, nth |-> 1]}
      /\ UNCHANGED <<status, applicant, required, payload, due, assignee, decision>>
  BY <1>2 DEF Execute, requestVars
<1>4. TypeOK'
  BY <1>3 DEF ApprovalInv, TypeOK
<1>5. PeopleInv' /\ TallyInv'
  BY <1>3 DEF ApprovalInv, PeopleInv, TallyInv
<1>6. ExecutedAsApproved'
  BY <1>3 DEF ApprovalInv, ExecutedAsApproved
<1> QED
  BY <1>4, <1>5, <1>6 DEF ApprovalInv

LEMMA ApprovalStepInv ==
  ApprovalInv /\ [Next]_vars => ApprovalInv'
<1> SUFFICES ASSUME ApprovalInv, [Next]_vars PROVE ApprovalInv'
  OBVIOUS
<1>1. CASE UNCHANGED vars
  BY <1>1 DEF vars, requestVars, ApprovalInv, TypeOK, PeopleInv, TallyInv, ExecutedAsApproved
<1>2. ASSUME NEW r \in Requests, PassExpiry(r) PROVE ApprovalInv'
  BY <1>2 DEF PassExpiry, requestVars, ApprovalInv, TypeOK, PeopleInv, TallyInv, ExecutedAsApproved
<1> QED
  BY <1>1, <1>2, CreateKeeps, ExpireKeeps, DecideKeeps, TransferKeeps, WithdrawKeeps, ExecuteKeeps DEF Next, Operate

LEMMA ApprovalInvariance ==
  Spec => []ApprovalInv
<1> QED
  BY ApprovalInitInv, ApprovalStepInv, PTL DEF Spec

-----------------------------------------------------------------------------
(***************************************************************************)
(* Requests, tasks and executions stay well typed; no task ever gets a     *)
(* status that belongs to a request.                                       *)
(***************************************************************************)
THEOREM ApprovalTypes == Spec => []TypeOK
<1>1. ApprovalInv => TypeOK
  BY DEF ApprovalInv
<1> QED
  BY <1>1, ApprovalInvariance, PTL

\* Approvals on record are as many as the people who gave them.
LEMMA ApprovalsArePeople ==
  ASSUME ApprovalInv, NEW r \in Requests
  PROVE  Cardinality(Approvers(r)) = Cardinality(TasksIn(decision[r], "APPROVE"))
<1> DEFINE tasks == TasksIn(decision[r], "APPROVE")
           f == [i \in tasks |-> assignee[r][i]]
<1>1. IsFiniteSet(tasks)
  BY TasksFinite
<1>2. \A i \in tasks : i \in Slots /\ assignee[r][i] # NoUser
  BY DEF TasksIn, ApprovalInv, PeopleInv
<1>3. \A i, j \in tasks : f[i] = f[j] => i = j
  BY <1>2 DEF ApprovalInv, PeopleInv
<1> HIDE DEF tasks
<1>4. f \in [tasks -> Approvers(r)] /\ \A v \in Approvers(r) : \E i \in tasks : f[i] = v
  BY DEF Approvers, tasks
<1> HIDE DEF f
<1>5. f \in Bijection(tasks, Approvers(r))
  BY <1>3, <1>4 DEF Bijection, Injection, Surjection, IsInjective
<1>6. ExistsBijection(tasks, Approvers(r))
  BY <1>5 DEF ExistsBijection
<1> QED
  BY <1>1, <1>6, FS_Bijection DEF tasks

(***************************************************************************)
(* Decide approves a request only with the required number of different    *)
(* people behind it, at least one, none of them its maker, and none of     *)
(* them against it: for every number of approvers, however tasks were      *)
(* transferred between the decisions.                                      *)
(***************************************************************************)
THEOREM QuorumOfPeople == Spec => []ApprovedByQuorum
<1>1. ApprovalInv => ApprovedByQuorum
  <2> SUFFICES ASSUME ApprovalInv, NEW r \in Requests, status[r] = "APPROVED"
               PROVE  /\ Cardinality(Approvers(r)) >= required[r] /\ required[r] >= 1
                      /\ applicant[r] \notin Approvers(r) /\ TasksIn(decision[r], "REJECT") = {}
    BY DEF ApprovedByQuorum
  <2>1. /\ Cardinality(TasksIn(decision[r], "APPROVE")) >= required[r] /\ required[r] >= 1
        /\ TasksIn(decision[r], "REJECT") = {}
    BY DEF ApprovalInv, TallyInv, Tally
  <2>2. applicant[r] \notin Approvers(r)
    BY DEF ApprovalInv, PeopleInv, Approvers, TasksIn
  <2> QED
    BY <2>1, <2>2, ApprovalsArePeople
<1> QED
  BY <1>1, ApprovalInvariance, PTL

(***************************************************************************)
(* Every operation that ClaimExecution let through is the one that was     *)
(* approved, for its applicant, and the only one under that approval.      *)
(***************************************************************************)
THEOREM ExecutionMatches == Spec => []ExecutedAsApproved
<1>1. ApprovalInv => ExecutedAsApproved
  BY DEF ApprovalInv
<1> QED
  BY <1>1, ApprovalInvariance, PTL

(***************************************************************************)
(* A PENDING request can still be approved by the tasks that are open, and *)
(* a decided one leaves no task open, whatever the mode and the order of   *)
(* the decisions (ResolveStatus over the counts of Decide).                *)
(***************************************************************************)
THEOREM NeverHangs == Spec => []PendingCanResolve
<1>1. ApprovalInv => PendingCanResolve
  BY TasksFinite DEF ApprovalInv, TallyInv, Tally, PendingCanResolve
<1> QED
  BY <1>1, ApprovalInvariance, PTL

(***************************************************************************)
(* The first of Decide, Withdraw and the expiry sweep settles a request:   *)
(* its outcome, its maker and what was asked for never change afterwards.  *)
(***************************************************************************)
THEOREM OutcomesAreFinal == Spec => OutcomeIsFinal
<1> DEFINE Settled ==
      \A r \in Requests :
        /\ status[r] \notin {"NONE", "PENDING"} => status'[r] = status[r]
        /\ status[r] # "NONE" => payload'[r] = payload[r] /\ applicant'[r] = applicant[r]
<1>1. ASSUME TypeOK, [Next]_vars PROVE [Settled]_vars
  <2> SUFFICES ASSUME NEW q \in Requests, Next,
                      NEW r \in Requests, status[r] # "NONE"
               PROVE  /\ status[r] # "PENDING" => status'[r] = status[r]
                      /\ payload'[r] = payload[r] /\ applicant'[r] = applicant[r]
    BY <1>1
  <2>1. ASSUME NEW t \in Requests, NEW u, NEW mode, NEW n, NEW p, NEW k, NEW ids, Create(t, u, mode, k, n, ids, p)
        PROVE  status'[r] = status[r] /\ payload'[r] = payload[r] /\ applicant'[r] = applicant[r]
    BY <2>1, <1>1 DEF Create, Insert, TypeOK
  <2>2. ASSUME NEW t \in Requests, ExpireOne(t) \/ ExpireAll \/ PassExpiry(t)
        PROVE  /\ status[r] # "PENDING" => status'[r] = status[r]
               /\ payload' = payload /\ applicant' = applicant
    BY <2>2, <1>1 DEF ExpireOne, ExpireAll, PassExpiry, Expiring, requestVars, TypeOK
  <2>3. ASSUME NEW t \in Requests, NEW u, NEW i, NEW choice, Decide(t, u, i, choice)
        PROVE  /\ status[r] # "PENDING" => status'[r] = status[r]
               /\ payload' = payload /\ applicant' = applicant
    <3>1. status[t] = "PENDING" /\ \E s : status' = [status EXCEPT ![t] = s]
      BY <2>3 DEF Decide, Open
    <3> QED
      BY <3>1, <2>3, <1>1 DEF Decide, requestVars, TypeOK
  <2>4. ASSUME NEW t \in Requests, NEW u, NEW i, NEW v, Transfer(t, u, i, v) \/ Withdraw(t, u) \/ Execute(t, u, v)
        PROVE  /\ status[r] # "PENDING" => status'[r] = status[r]
               /\ payload' = payload /\ applicant' = applicant
    BY <2>4, <1>1 DEF Transfer, Withdraw, Execute, requestVars, TypeOK
  <2> QED
    BY <2>1, <2>2, <2>3, <2>4 DEF Next, Operate
<1>2. Spec => [][Settled]_vars
  BY <1>1, ApprovalTypes, PTL DEF Spec
<1> QED
  BY <1>2 DEF OutcomeIsFinal

=============================================================================
