--------------------------- MODULE ReleaseControl ---------------------------
(***************************************************************************)
(* Release admission and rollback (internal/platform/releasecontrol).      *)
(* Every operation of the Controller reads the record with Get, decides on *)
(* that copy and writes the whole next record with Transition, which the   *)
(* store (external) carries out only if the state is still the one that    *)
(* was read.  Calls interleave between the two.                            *)
(***************************************************************************)
EXTENDS Naturals, FiniteSets

CONSTANTS People,    \* who may act on the release
          Required,  \* RequiredApprovals; no theorem depends on the number
          RcCalls,   \* concurrent calls of the Controller
          NoPerson

ReleaseStates == {"NONE", "Draft", "PendingApproval", "Approved", "Executing", "Succeeded", "Failed",
                  "RollbackRequested", "RollbackApproved", "RollingBack", "RolledBack"}

ReleaseRecords == [state : ReleaseStates, requestedBy : People \cup {NoPerson},
                   approvers : SUBSET People, rollbackApprovers : SUBSET People]

VARIABLES
  release,    \* the stored record
  rcCall,     \* rcCall[t]: what call t has read and decided, not yet written
  inWindow,   \* the clock is inside the change window
  approved,   \* history: who made a successful Approve
  rolledback  \* history: who made a successful ApproveRollback

rcVars == <<release, rcCall, inWindow, approved, rolledback>>

RcIdle == [busy |-> FALSE]
RcBusyCalls == [busy : {TRUE}, actor : People, from : ReleaseStates, next : ReleaseRecords]

RcTypeOK ==
  /\ release \in ReleaseRecords
  /\ rcCall \in [RcCalls -> RcBusyCalls \cup {RcIdle}]
  /\ inWindow \in BOOLEAN
  /\ approved \subseteq People
  /\ rolledback \subseteq People

RcInit ==
  /\ release = [state |-> "NONE", requestedBy |-> NoPerson, approvers |-> {}, rollbackApprovers |-> {}]
  /\ rcCall = [t \in RcCalls |-> RcIdle]
  /\ inWindow = FALSE
  /\ approved = {}
  /\ rolledback = {}

-----------------------------------------------------------------------------
CreateRelease(u) ==
  /\ release.state = "NONE"
  /\ release' = [release EXCEPT !.state = "Draft", !.requestedBy = u]
  /\ UNCHANGED <<rcCall, inWindow, approved, rolledback>>

\* The call has read the record and is going to write next.
Prepare(t, u, next) ==
  /\ ~rcCall[t].busy
  /\ rcCall' = [rcCall EXCEPT ![t] = [busy |-> TRUE, actor |-> u, from |-> release.state, next |-> next]]
  /\ UNCHANGED <<release, inWindow, approved, rolledback>>

\* Approve and ApproveRollback: neither the requester nor anyone twice.
MayApprove(u, approvers) == u # release.requestedBy /\ u \notin approvers

Enough(approvers) == Cardinality(approvers) >= Required

Approve(t, u) ==
  /\ release.state = "PendingApproval"
  /\ MayApprove(u, release.approvers)
  /\ LET all == release.approvers \cup {u}
     IN  Prepare(t, u, [release EXCEPT !.approvers = all,
                                      !.state = IF Enough(all) THEN "Approved" ELSE "PendingApproval"])

ApproveRollback(t, u) ==
  /\ release.state = "RollbackRequested"
  /\ MayApprove(u, release.rollbackApprovers)
  /\ LET all == release.rollbackApprovers \cup {u}
     IN  Prepare(t, u, [release EXCEPT !.rollbackApprovers = all,
                                      !.state = IF Enough(all) THEN "RollbackApproved"
                                                ELSE "RollbackRequested"])

\* Start: only inside the window, by the clock of this call.
Start(t, u) ==
  /\ release.state = "Approved" /\ inWindow
  /\ Prepare(t, u, [release EXCEPT !.state = "Executing"])

RequestRollback(t, u) ==
  /\ release.state = "Succeeded"
  /\ Prepare(t, u, [release EXCEPT !.state = "RollbackRequested", !.rollbackApprovers = {}])

\* RequestApproval, Succeed, Fail, StartRollback and CompleteRollback.
SimpleSteps ==
  {<<"Draft", "PendingApproval">>, <<"Executing", "Succeeded">>, <<"Executing", "Failed">>,
   <<"RollbackApproved", "RollingBack">>, <<"RollingBack", "RolledBack">>}

Advance(t, u, step) ==
  /\ release.state = step[1]
  /\ Prepare(t, u, [release EXCEPT !.state = step[2]])

\* Transition's condition: the state is still the one that was read.
UnchangedSince(t) == release.state = rcCall[t].from

(* The store's Transition and its audit event, in one transaction.         *)
Transition(t) ==
  /\ rcCall[t].busy
  /\ UnchangedSince(t)
  /\ release' = rcCall[t].next
  /\ approved' = IF rcCall[t].from = "PendingApproval" THEN approved \cup {rcCall[t].actor} ELSE approved
  /\ rolledback' = IF rcCall[t].from = "RollbackRequested" THEN rolledback \cup {rcCall[t].actor}
                   ELSE rolledback
  /\ rcCall' = [rcCall EXCEPT ![t] = RcIdle]
  /\ UNCHANGED inWindow

\* Transition fails: the state has changed, or the store has an error.
TransitionError(t) ==
  /\ rcCall[t].busy
  /\ rcCall' = [rcCall EXCEPT ![t] = RcIdle]
  /\ UNCHANGED <<release, inWindow, approved, rolledback>>

Window ==
  /\ inWindow' = ~inWindow
  /\ UNCHANGED <<release, rcCall, approved, rolledback>>

RcNext ==
  \/ \E u \in People : CreateRelease(u)
  \/ \E t \in RcCalls :
       \/ \E u \in People :
            \/ Approve(t, u) \/ ApproveRollback(t, u) \/ Start(t, u) \/ RequestRollback(t, u)
            \/ \E step \in SimpleSteps : Advance(t, u, step)
       \/ Transition(t)
       \/ TransitionError(t)
  \/ Window

RcSpec == RcInit /\ [][RcNext]_rcVars

-----------------------------------------------------------------------------
Admitted == {"Approved", "Executing", "Succeeded", "Failed", "RollbackRequested",
             "RollbackApproved", "RollingBack", "RolledBack"}

RollbackAdmitted == {"RollbackApproved", "RollingBack", "RolledBack"}

(* However the calls of Approve overwrite each other's records, a release  *)
(* is admitted only with the required number of people who really approved *)
(* it, none of them its requester.                                         *)
AdmittedByQuorum ==
  release.state \in Admitted =>
    /\ Cardinality(release.approvers) >= Required
    /\ release.approvers \subseteq approved \ {release.requestedBy}

(* The same of a rollback: the required number of people approved it in    *)
(* the review of the rollback, none of them the release's requester.       *)
RollbackByQuorum ==
  release.state \in RollbackAdmitted =>
    /\ Cardinality(release.rollbackApprovers) >= Required
    /\ release.rollbackApprovers \subseteq rolledback \ {release.requestedBy}

(* An outcome is final: no call that read the record earlier takes an      *)
(* executed release back into review, or an executed rollback.             *)
NoReturnToReview ==
  [][/\ release.state \in Admitted => release'.state \in Admitted /\ release'.approvers = release.approvers
     /\ release.state \in {"Failed", "RolledBack"} => release' = release]_rcVars

=============================================================================
