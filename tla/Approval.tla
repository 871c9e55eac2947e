------------------------------ MODULE Approval ------------------------------
(***************************************************************************)
(* Maker-checker approvals (internal/domain/approval, internal/app/approval *)
(* and the repository behind them) and the operations they authorise.      *)
(*                                                                         *)
(* Every operation locks the request row FOR UPDATE and commits once, so   *)
(* it is one step; the expiry sweep is a single UPDATE that any reader     *)
(* runs.  due[r] says that the clock has passed expires_at.  The digest is *)
(* a collision-free image of what the applicant asked for, so it is        *)
(* modelled by the canonical payload itself.                               *)
(***************************************************************************)
EXTENDS Naturals, FiniteSets

CONSTANTS Users,       \* the users of one organization
          Disabled,    \* users whose account is not ACTIVE
          Requests,    \* identities of approval requests
          MaxTasks,    \* bound: the largest number of approvers of a request
          Payloads,    \* canonical payloads
          NoUser

ASSUME ApprovalAssumption ==
  /\ Disabled \subseteq Users
  /\ MaxTasks \in Nat \ {0}
  /\ NoUser \notin Users
  /\ IsFiniteSet(Users)

Slots == 1..MaxTasks

VARIABLES
  status,     \* status[r]: NONE before Create
  applicant,  \* applicant[r]
  required,   \* required[r]: required_approvals
  payload,    \* payload[r]: what request_digest was computed from
  due,        \* due[r]: expires_at <= now
  assignee,   \* assignee[r][i]: the user who holds task i of r
  decision,   \* decision[r][i]: the status of task i, NONE if there is no task
  executed    \* what was executed: a set of [req, by, payload, nth]

requestVars == <<applicant, required, payload>>
vars == <<status, requestVars, due, assignee, decision, executed>>

TaskStatuses == {"NONE", "PENDING", "APPROVE", "REJECT", "CANCELLED"}
RequestStatuses == {"NONE", "PENDING", "APPROVED", "REJECTED", "WITHDRAWN", "EXPIRED"}

TypeOK ==
  /\ status \in [Requests -> RequestStatuses]
  /\ applicant \in [Requests -> Users \cup {NoUser}]
  /\ required \in [Requests -> 0..MaxTasks]
  /\ payload \in [Requests -> Payloads]
  /\ due \in [Requests -> BOOLEAN]
  /\ assignee \in [Requests -> [Slots -> Users \cup {NoUser}]]
  /\ decision \in [Requests -> [Slots -> TaskStatuses]]
  /\ executed \in SUBSET [req : Requests, by : Users, payload : Payloads, nth : Nat]

Init ==
  /\ status = [r \in Requests |-> "NONE"]
  /\ applicant = [r \in Requests |-> NoUser]
  /\ required = [r \in Requests |-> 0]
  /\ payload \in [Requests -> Payloads]
  /\ due = [r \in Requests |-> FALSE]
  /\ assignee = [r \in Requests |-> [i \in Slots |-> NoUser]]
  /\ decision = [r \in Requests |-> [i \in Slots |-> "NONE"]]
  /\ executed = {}

Active == Users \ Disabled

\* The tasks of a request that are in state s.
TasksIn(tasks, s) == {i \in Slots : tasks[i] = s}

-----------------------------------------------------------------------------
(* ValidateCreation: how many approvals each mode demands of n approvers.  *)
ValidRequired(mode, k, n) ==
  CASE mode = "ANY" -> k = 1
    [] mode = "ALL" -> k = n
    [] mode = "QUORUM" -> 1 <= k /\ k <= n

(* ValidateCreation: at least one approver, no one twice, never the maker. *)
ValidApprovers(u, ids, n) ==
  /\ \A i \in 1..n : ids[i] # u
  /\ \A i, j \in 1..n : i # j => ids[i] # ids[j]

(* The repository's Create: the request and one PENDING task per approver, *)
(* all of them ACTIVE users.                                               *)
Insert(r, u, k, n, ids, p) ==
  /\ status[r] = "NONE"
  /\ {u} \cup {ids[i] : i \in 1..n} \subseteq Active
  /\ status' = [status EXCEPT ![r] = "PENDING"]
  /\ applicant' = [applicant EXCEPT ![r] = u]
  /\ required' = [required EXCEPT ![r] = k]
  /\ payload' = [payload EXCEPT ![r] = p]
  /\ assignee' = [assignee EXCEPT ![r] = [i \in Slots |-> IF i <= n THEN ids[i] ELSE NoUser]]
  /\ decision' = [decision EXCEPT ![r] = [i \in Slots |-> IF i <= n THEN "PENDING" ELSE "NONE"]]
  /\ UNCHANGED <<due, executed>>

\* The service's Create: the digest fixes the payload from here on.
Create(r, u, mode, k, n, ids, p) ==
  /\ ValidApprovers(u, ids, n)
  /\ ValidRequired(mode, k, n)
  /\ Insert(r, u, k, n, ids, p)

\* Mutant: the sweep forgets status = 'PENDING'.
ExpiringAny(r) == status[r] # "NONE" /\ due[r]

\* The rows the expiry UPDATE selects.
Expiring(r) == status[r] = "PENDING" /\ due[r]

\* ByID: a reader marks the request it looks at if it is due.
ExpireOne(r) ==
  /\ Expiring(r)
  /\ status' = [status EXCEPT ![r] = "EXPIRED"]
  /\ UNCHANGED <<requestVars, due, assignee, decision, executed>>

\* List: the same UPDATE for every request of the organization.
ExpireAll ==
  /\ \E r \in Requests : Expiring(r)
  /\ status' = [r \in Requests |-> IF Expiring(r) THEN "EXPIRED" ELSE status[r]]
  /\ UNCHANGED <<requestVars, due, assignee, decision, executed>>

\* Mutant: a rejection only counts as a missing approval.
ResolveByApprovals(need, approved, rejected, pending) ==
  IF approved + pending < need THEN "REJECTED"
  ELSE IF approved >= need THEN "APPROVED" ELSE "PENDING"

\* domain.ResolveStatus
ResolveStatus(need, approved, rejected, pending) ==
  IF rejected > 0 \/ approved + pending < need THEN "REJECTED"
  ELSE IF approved >= need THEN "APPROVED" ELSE "PENDING"

Open(r) == status[r] = "PENDING" /\ ~due[r]

\* Mutant: the tasks of a request that is over stay open.
CancelNothing(tasks) == tasks

\* Mutant: a cancelled task gets a status of the request.
CancelAsWithdrawn(tasks) ==
  [i \in Slots |-> IF tasks[i] = "PENDING" THEN "WITHDRAWN" ELSE tasks[i]]

\* Every task that is still pending is cancelled.
CancelPending(tasks) ==
  [i \in Slots |-> IF tasks[i] = "PENDING" THEN "CANCELLED" ELSE tasks[i]]

(* Decide: the actor's own pending task gets the decision, the request is  *)
(* resolved from the counts over all tasks, and once it is resolved the    *)
(* remaining tasks are cancelled.                                          *)
Decide(r, u, i, choice) ==
  /\ Open(r)
  /\ applicant[r] # u
  /\ assignee[r][i] = u
  /\ decision[r][i] = "PENDING"
  /\ LET tasks == [decision[r] EXCEPT ![i] = choice]
         resolved == ResolveStatus(required[r], Cardinality(TasksIn(tasks, "APPROVE")),
                                   Cardinality(TasksIn(tasks, "REJECT")),
                                   Cardinality(TasksIn(tasks, "PENDING")))
     IN  /\ status' = [status EXCEPT ![r] = resolved]
         /\ decision' = [decision EXCEPT ![r] =
                           IF resolved = "PENDING" THEN tasks ELSE CancelPending(tasks)]
  /\ UNCHANGED <<requestVars, due, assignee, executed>>

\* Transfer: an open task goes to an ACTIVE user who has no task of r yet.
Transfer(r, u, i, v) ==
  /\ Open(r)
  /\ v # applicant[r]
  /\ v \in Active
  /\ assignee[r][i] = u
  /\ decision[r][i] = "PENDING"
  /\ \A j \in Slots : assignee[r][j] # v
  /\ assignee' = [assignee EXCEPT ![r][i] = v]
  /\ UNCHANGED <<status, requestVars, due, decision, executed>>

\* Withdraw: by the applicant, of a request still marked PENDING.
Withdraw(r, u) ==
  /\ applicant[r] = u
  /\ status[r] = "PENDING"
  /\ status' = [status EXCEPT ![r] = "WITHDRAWN"]
  /\ decision' = [decision EXCEPT ![r] = CancelPending(@)]
  /\ UNCHANGED <<requestVars, due, assignee, executed>>

\* Mutant: ClaimExecution does not look for an earlier execution.
UnclaimedAlways(r) == TRUE

\* The execution of r has not been claimed (its row takes one INSERT only).
Unclaimed(r) == \A x \in executed : x.req # r

(* A governed operation with payload p: AuthorizeExecution claims the      *)
(* approval and the operation itself commits in the same transaction.      *)
Execute(r, u, p) ==
  /\ applicant[r] = u
  /\ status[r] = "APPROVED" /\ ~due[r]
  /\ payload[r] = p
  /\ Unclaimed(r)
  /\ executed' = executed \cup {[req |-> r, by |-> u, payload |-> p,
                                 nth |-> Cardinality({x \in executed : x.req = r}) + 1]}
  /\ UNCHANGED <<status, requestVars, due, assignee, decision>>

\* The clock passes expires_at of r.
PassExpiry(r) ==
  /\ status[r] # "NONE" /\ ~due[r]
  /\ due' = [due EXCEPT ![r] = TRUE]
  /\ UNCHANGED <<status, requestVars, assignee, decision, executed>>

\* What the service lets its actors do with a request that exists.
Operate(r) ==
  \/ ExpireOne(r)
  \/ \E u \in Users, i \in Slots :
       \/ \E choice \in {"APPROVE", "REJECT"} : Decide(r, u, i, choice)
       \/ \E v \in Users : Transfer(r, u, i, v)
  \/ \E u \in Users : Withdraw(r, u)
  \/ \E u \in Users, p \in Payloads : Execute(r, u, p)

Next ==
  \E r \in Requests :
    \/ \E u \in Users, mode \in {"ANY", "ALL", "QUORUM"}, n \in Slots, p \in Payloads :
         \E k \in 1..n, ids \in [1..n -> Users] : Create(r, u, mode, k, n, ids, p)
    \/ ExpireAll
    \/ Operate(r)
    \/ PassExpiry(r)

Spec == Init /\ [][Next]_vars

-----------------------------------------------------------------------------
\* The users whose approval of r is on record.
Approvers(r) == {assignee[r][i] : i \in TasksIn(decision[r], "APPROVE")}

(* Whatever tasks were transferred and in which order decisions came in,   *)
(* Decide approves a request only with the required number of different    *)
(* people, none of them its maker and none of them against it.             *)
ApprovedByQuorum ==
  \A r \in Requests : status[r] = "APPROVED" =>
    /\ Cardinality(Approvers(r)) >= required[r]
    /\ required[r] >= 1
    /\ applicant[r] \notin Approvers(r)
    /\ TasksIn(decision[r], "REJECT") = {}

(* An operation that ClaimExecution let through is exactly the one the     *)
(* quorum reviewed, ran for its applicant, and ran only once.              *)
ExecutedAsApproved ==
  \A x \in executed :
    /\ status[x.req] = "APPROVED"
    /\ x.payload = payload[x.req]
    /\ x.by = applicant[x.req]
    /\ x.nth = 1

(* A request never hangs: while it is PENDING the tasks still open suffice *)
(* to approve it, and a request that was decided leaves no task open.      *)
PendingCanResolve ==
  \A r \in Requests :
    LET approved == Cardinality(TasksIn(decision[r], "APPROVE"))
        pending  == Cardinality(TasksIn(decision[r], "PENDING"))
    IN  /\ status[r] = "PENDING" => approved < required[r] /\ required[r] <= approved + pending
        /\ status[r] \in {"APPROVED", "REJECTED", "WITHDRAWN"} => pending = 0

(* Decide, Withdraw and the expiry sweep race for a PENDING request: one   *)
(* of them wins and its outcome is never replaced; nor is what was asked.  *)
OutcomeIsFinal ==
  [][\A r \in Requests :
       /\ status[r] \notin {"NONE", "PENDING"} => status'[r] = status[r]
       /\ status[r] # "NONE" => payload'[r] = payload[r] /\ applicant'[r] = applicant[r]]_vars

=============================================================================
