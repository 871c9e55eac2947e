--------------------------- MODULE GovernedConfig ---------------------------
(***************************************************************************)
(* Configuration changes behind the approval gate, as the API offers them  *)
(* (transitionConfigChange in internal/adapters/kratosapi): a transition   *)
(* has to present an approval whose digest covers the change, the action   *)
(* and, this is what the handler puts into the payload, the identity of    *)
(* the approval itself.  The identity is drawn by approval Create after    *)
(* the applicant has supplied the payload.                                 *)
(*                                                                         *)
(* Only the course in which everybody cooperates is modelled: requests are *)
(* filed for the next transition, reviewers approve, the applicant calls   *)
(* the transition, and no request expires.                                 *)
(***************************************************************************)
EXTENDS Approval

CONSTANT NoRequest  \* a payload that names no approval

\* Payloads are the records [action : ConfigActions, approval : Requests \cup {NoRequest}].
ConfigActions == {"APPROVE", "PUBLISH"}

VARIABLES
  state,      \* the state of the configuration change
  createdBy,  \* who created it
  approvedBy  \* who approved it

changeVars == <<state, createdBy, approvedBy>>
gvars == <<vars, changeVars>>

GInit ==
  /\ Init
  /\ state = "PENDING_APPROVAL"
  /\ createdBy \in Active
  /\ approvedBy = NoUser

\* Apply on the change (module ConfigChange has all its actions).
Transition(u, action) ==
  \/ /\ action = "APPROVE" /\ state = "PENDING_APPROVAL" /\ u # createdBy
     /\ state' = "APPROVED"
     /\ approvedBy' = u
     /\ UNCHANGED createdBy
  \/ /\ action = "PUBLISH" /\ state = "APPROVED" /\ u = approvedBy
     /\ state' = "PUBLISHED"
     /\ UNCHANGED <<createdBy, approvedBy>>

\* The action that comes next, and the users the change lets take it.
NextAction == IF state = "PENDING_APPROVAL" THEN "APPROVE" ELSE "PUBLISH"
Operators == IF state = "PENDING_APPROVAL" THEN Users \ {createdBy} ELSE {approvedBy}

(* An operator u asks v to approve the next action on the change.  The     *)
(* payload may name any request that exists, but not the one being made.   *)
FileRequest(r, u, v, p) ==
  /\ u \in Operators /\ p.action = NextAction
  /\ p.approval # NoRequest => status[p.approval] # "NONE"
  /\ Create(r, u, "ANY", 1, 1, <<v>>, p)
  /\ UNCHANGED changeVars

ApproveRequest(r, u) ==
  /\ Decide(r, u, 1, "APPROVE")
  /\ UNCHANGED changeVars

(* transitionConfigChange: one transaction of AuthorizeExecution with the  *)
(* payload the handler builds, Transition and the audit record.            *)
TransitionConfigChange(r, u, action) ==
  /\ Execute(r, u, [action |-> action, approval |-> r])
  /\ Transition(u, action)

TransitionAny ==
  \E r \in Requests, u \in Users, action \in ConfigActions : TransitionConfigChange(r, u, action)

GNext ==
  \/ \E r \in Requests, u, v \in Users, p \in Payloads : FileRequest(r, u, v, p)
  \/ \E r \in Requests, u \in Users : ApproveRequest(r, u)
  \/ TransitionAny

(* Cooperation: a request is filed for each identity there is, it is       *)
(* approved, and a transition that the API would let through is called.    *)
GovernedSpec ==
  /\ GInit /\ [][GNext]_gvars
  /\ \A r \in Requests :
       /\ WF_gvars(\E u, v \in Users, p \in Payloads : FileRequest(r, u, v, p))
       /\ WF_gvars(\E u \in Users : ApproveRequest(r, u))
  /\ WF_gvars(TransitionAny)

(* docs/usage.md 6.1: a change goes from PendingApproval over Approved to  *)
(* Published.  Everybody cooperating, some transition is carried out.      *)
ChangeMovesOn == <>(state # "PENDING_APPROVAL")

=============================================================================
