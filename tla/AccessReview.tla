---------------------------- MODULE AccessReview ----------------------------
(***************************************************************************)
(* Periodic reviews of who holds which role (internal/app/identity/        *)
(* access_reviews.go and its repository).  A review is a snapshot of the   *)
(* roles of all active users; the one reviewer decides on every item, and  *)
(* the decision on the last one completes the review.  Decisions run in    *)
(* transactions that lock the review's row; what a transaction writes is   *)
(* seen by others when it commits.                                         *)
(***************************************************************************)
EXTENDS Naturals, FiniteSets

CONSTANTS Subjects,       \* the users
          RoleKeys,       \* the roles
          ReviewAdmins,   \* system_admin, security_admin and auditor
          Reviews,        \* bound: the reviews that are ever created
          Deciders,       \* requests that decide on items and may overlap
          CursorsOverlap  \* may a statement run while a result is read?

\* What the proofs need of the constants.
ReviewAssumption == ReviewAdmins \subseteq RoleKeys /\ CursorsOverlap \in BOOLEAN

Sources == {"direct", "group", "temporary"}
Decided == {"APPROVE", "REVOKE", "EXCEPTION"}
ItemKeys == Subjects \X RoleKeys
NoReview == "none"

VARIABLES
  active,    \* the users whose status is ACTIVE
  held,      \* held[s]: who holds which role directly, by an active group, ...
  rstatus,   \* rstatus[v]: NONE before the row exists, OPEN or COMPLETED
  reviewer,  \* reviewer[v]: reviewer_id
  creator,   \* creator[v]: created_by
  item,      \* item[v][i]: the decision on item i; NONE where there is no row
  rlock,     \* rlock[q]: the review whose row q has locked
  chosen     \* chosen[q]: its uncommitted decisions, and whether it completes

entitlementVars == <<active, held>>
reviewVars == <<rstatus, reviewer, creator, item>>
deciderVars == <<rlock, chosen>>
revVars == <<entitlementVars, reviewVars, deciderVars>>

NoChoice == [keys |-> {}, decision |-> "APPROVE", last |-> FALSE]

RevTypeOK ==
  /\ active \in SUBSET Subjects
  /\ held \in [Sources -> SUBSET ItemKeys]
  /\ rstatus \in [Reviews -> {"NONE", "OPEN", "COMPLETED"}]
  /\ reviewer \in [Reviews -> Subjects \cup {NoReview}]
  /\ creator \in [Reviews -> Subjects \cup {NoReview}]
  /\ item \in [Reviews -> [ItemKeys -> {"NONE", "PENDING"} \cup Decided]]
  /\ rlock \in [Deciders -> Reviews \cup {NoReview}]
  /\ chosen \in [Deciders -> [keys : SUBSET ItemKeys, decision : Decided, last : BOOLEAN]]

RevInit ==
  /\ active \in SUBSET Subjects
  /\ held \in [Sources -> SUBSET ItemKeys]
  /\ rstatus = [v \in Reviews |-> "NONE"]
  /\ reviewer = [v \in Reviews |-> NoReview]
  /\ creator = [v \in Reviews |-> NoReview]
  /\ item = [v \in Reviews |-> [i \in ItemKeys |-> "NONE"]]
  /\ rlock = [q \in Deciders |-> NoReview]
  /\ chosen = [q \in Deciders |-> NoChoice]

(* UpdateUserStatus, ReplaceUserRoles, the groups and the temporary grants *)
(* change these at any time; a decision changes none of them.              *)
ChangeEntitlements(u, r, s) ==
  /\ \/ active' \in {active \cup {u}, active \ {u}} /\ UNCHANGED held
     \/ /\ held' \in {[held EXCEPT ![s] = @ \cup {<<u, r>>}], [held EXCEPT ![s] = @ \ {<<u, r>>}]}
        /\ UNCHANGED active
  /\ UNCHANGED <<reviewVars, deciderVars>>

\* The query of the snapshot: a UNION over the three sources.
EntitlementSnapshot ==
  {i \in ItemKeys : i[1] \in active /\ \E s \in Sources : i \in held[s]}

(* CreateAccessReview: the items are inserted while the rows of the        *)
(* snapshot are being read on the same connection of the transaction.  A   *)
(* driver that does not allow that fails the INSERT and with it the        *)
(* transaction, unless there is nothing to insert.  Like DecideItem's, its *)
(* caller has verified a second factor recently when its session was read; *)
(* that moment is past, so nothing of it constrains this step.             *)
CreateAccessReview(v, actor, who) ==
  /\ rstatus[v] = "NONE"
  /\ \E r \in ReviewAdmins, s \in Sources : <<actor, r>> \in held[s]
  /\ actor # who
  /\ who \in active
  /\ CursorsOverlap \/ EntitlementSnapshot = {}
  /\ rstatus' = [rstatus EXCEPT ![v] = "OPEN"]
  /\ reviewer' = [reviewer EXCEPT ![v] = who]
  /\ creator' = [creator EXCEPT ![v] = actor]
  /\ item' = [item EXCEPT ![v] =
                [i \in ItemKeys |-> IF i \in EntitlementSnapshot THEN "PENDING" ELSE "NONE"]]
  /\ UNCHANGED <<entitlementVars, deciderVars>>

(* SELECT ... FOR UPDATE on the review, which has to be OPEN and assigned  *)
(* to the actor.                                                           *)
LockReview(q, v, actor) ==
  /\ rlock[q] = NoReview
  /\ \A o \in Deciders : rlock[o] # v
  /\ rstatus[v] = "OPEN"
  /\ reviewer[v] = actor
  /\ rlock' = [rlock EXCEPT ![q] = v]
  /\ UNCHANGED <<entitlementVars, reviewVars, chosen>>

PendingItems(v) == {i \in ItemKeys : item[v][i] = "PENDING"}

(* The conditional UPDATE of the item and the count of the items that are  *)
(* still PENDING, in the transaction.                                      *)
DecideItem(q, i, decision) ==
  /\ rlock[q] # NoReview
  /\ chosen[q] = NoChoice
  /\ i \in PendingItems(rlock[q])
  /\ chosen' = [chosen EXCEPT ![q] =
       [keys |-> {i}, decision |-> decision, last |-> PendingItems(rlock[q]) \ {i} = {}]]
  /\ UNCHANGED <<entitlementVars, reviewVars, rlock>>

EndDecision(q) ==
  /\ rlock' = [rlock EXCEPT ![q] = NoReview]
  /\ chosen' = [chosen EXCEPT ![q] = NoChoice]

CommitDecision(q, v) ==
  /\ v = rlock[q]
  /\ chosen[q].keys # {}
  /\ item' = [item EXCEPT ![v] =
       [i \in ItemKeys |-> IF i \in chosen[q].keys THEN chosen[q].decision ELSE item[v][i]]]
  /\ rstatus' = [rstatus EXCEPT ![v] = IF chosen[q].last THEN "COMPLETED" ELSE @]
  /\ EndDecision(q)
  /\ UNCHANGED <<entitlementVars, reviewer, creator>>

\* The item is not PENDING, a statement fails, or the process dies.
AbortDecision(q) ==
  /\ rlock[q] # NoReview
  /\ EndDecision(q)
  /\ UNCHANGED <<entitlementVars, reviewVars>>

RevNext ==
  \/ \E u \in Subjects, r \in RoleKeys, s \in Sources : ChangeEntitlements(u, r, s)
  \/ \E v \in Reviews, actor, who \in Subjects : CreateAccessReview(v, actor, who)
  \/ \E q \in Deciders :
       \/ \E v \in Reviews, actor \in Subjects : LockReview(q, v, actor)
       \/ \E i \in ItemKeys, decision \in Decided : DecideItem(q, i, decision)
       \/ \E v \in Reviews : CommitDecision(q, v)
       \/ AbortDecision(q)

RevSpec == RevInit /\ [][RevNext]_revVars

-----------------------------------------------------------------------------
(* PROPERTIES *)

(* A review is COMPLETED exactly when it has items and none is PENDING:    *)
(* overlapping decisions on the last two items, each of which could count  *)
(* the other as PENDING, neither complete it early nor leave it open.      *)
CompletedWhenDecided ==
  \A v \in Reviews :
    LET items == {i \in ItemKeys : item[v][i] # "NONE"}
    IN  rstatus[v] = "COMPLETED" <=> items # {} /\ PendingItems(v) = {}

(* Nobody reviews what he has ordered himself: creator and reviewer of a   *)
(* review differ for as long as it exists.                                 *)
IndependentReview ==
  \A v \in Reviews : rstatus[v] # "NONE" => creator[v] # reviewer[v]

(* With a driver that does not run a statement while a result is being     *)
(* read on the same connection, no review ever has an item, and none is    *)
(* ever completed.                                                         *)
EmptyWithoutOverlap ==
  ~CursorsOverlap =>
    \A v \in Reviews :
      rstatus[v] # "COMPLETED" /\ \A i \in ItemKeys : item[v][i] = "NONE"

\* A decision is never changed, and a completed review is never reopened.
DecisionsFinal ==
  [][\A v \in Reviews :
       /\ rstatus[v] = "COMPLETED" => rstatus'[v] = "COMPLETED"
       /\ \A i \in ItemKeys : item[v][i] \in Decided => item'[v][i] = item[v][i]]_revVars

=============================================================================
