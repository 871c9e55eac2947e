---------------------------- MODULE AdminHandlers ----------------------------
(***************************************************************************)
(* The writing handlers of the administration and approval services        *)
(* (internal/adapters/kratosapi).  A handler runs its whole work in one    *)
(* transaction that also writes the audit event (audited); most also claim *)
(* an approval in it whose digest is that of what they are about to do     *)
(* (AuthorizeExecution, ClaimExecution under the lock of the request's     *)
(* row).  What the work does to its own tables is in the other modules;    *)
(* here it is an effect: which handler, on which record, with which        *)
(* content.                                                                *)
(***************************************************************************)

EXTENDS Operations

CONSTANTS Calls,        \* calls of handlers, each made at most once
          HdApprovals,  \* approval requests that were decided with APPROVED
          Ids,          \* records the handlers work on
          Contents      \* what they write, in canonical form

NoApproval == "no approval"
ForceChange == "force_change"  \* the payload that every password reset is approved with

HandlerAssumption ==
  /\ NoApproval \notin HdApprovals
  /\ ForceChange \notin Contents

\* requestDigest: injective, a hash of its parts.
Digest(type, action, resource, id, payload) == <<type, action, resource, id, payload>>

VARIABLES
  hdApproval,  \* hdApproval[a]: the digest it was approved for; {} while there is no such request
  hdClaimed,   \* rows of approval_executions
  hdEffects,   \* committed work of the handlers
  hdAudit,     \* rows of audit_events
  hdCall       \* hdCall[c]: "new", "failed": rolled back or not known to be committed, "done"

hdVars == <<hdApproval, hdClaimed, hdEffects, hdAudit, hdCall>>

HdInit ==
  /\ hdApproval = [a \in HdApprovals |-> {}]
  /\ hdClaimed = {}
  /\ hdEffects = {}
  /\ hdAudit = {}
  /\ hdCall = [c \in Calls |-> "new"]

\* The approval workflow of another module ends in APPROVED for the digest of some request.
ApprovalGranted(a, digest) ==
  /\ hdApproval[a] = {}
  /\ hdApproval' = [hdApproval EXCEPT ![a] = {digest}]
  /\ UNCHANGED <<hdClaimed, hdEffects, hdAudit, hdCall>>

\* AuthorizeExecution: the request is APPROVED for this very digest and was never executed.
AuthorizeExecution(a, digest) ==
  /\ hdApproval[a] = {digest}
  /\ a \notin hdClaimed

\* audited, first transaction: work and event commit together.  The commit may be reported as
\* an error although it happened.
CommitCall(c, op, id, content, a, digest) ==
  /\ hdCall[c] = "new"
  /\ hdEffects' = hdEffects \cup
       {[call |-> c, op |-> op, id |-> id, content |-> content, approval |-> a, digest |-> digest]}
  /\ hdAudit' = hdAudit \cup {[call |-> c, op |-> op, result |-> "SUCCESS"]}
  /\ \E reply \in {"done", "failed"} : hdCall' = [hdCall EXCEPT ![c] = reply]

Governed(c, op, a, type, action, resource, id, payload, content) ==
  LET digest == Digest(type, action, resource, id, payload)
  IN  /\ AuthorizeExecution(a, digest)
      /\ hdClaimed' = hdClaimed \cup {a}
      /\ CommitCall(c, op, id, content, a, digest)
      /\ UNCHANGED hdApproval

Plain(c, op, id, content) ==
  /\ CommitCall(c, op, id, content, NoApproval, <<>>)
  /\ UNCHANGED <<hdApproval, hdClaimed>>

\* The approval is refused, the work or the audit event fails: everything is rolled back.
FailCall(c) ==
  /\ hdCall[c] = "new"
  /\ hdCall' = [hdCall EXCEPT ![c] = "failed"]
  /\ UNCHANGED <<hdApproval, hdClaimed, hdEffects, hdAudit>>

\* audited, second transaction: the failure is recorded, unless that fails too or the process
\* dies.  The handlers of the approval service have no such transaction.
RecordFailure(c, op) ==
  /\ hdCall[c] = "failed"
  /\ hdCall' = [hdCall EXCEPT ![c] = "done"]
  /\ hdAudit' \in {hdAudit, hdAudit \cup {[call |-> c, op |-> op, result |-> "FAILURE"]}}
  /\ UNCHANGED <<hdApproval, hdClaimed, hdEffects>>

-----------------------------------------------------------------------------
(* Handlers that claim an approval.                                        *)

SecurityPolicyHandler(c, a, p) ==
  Governed(c, "UpdateSecurityPolicy", a, "SECURITY_POLICY_CHANGE", "security.config.update", "security", "policy", p, p)

RolePermissionsHandler(c, a, id, p) ==
  Governed(c, "UpdateRolePermissions", a, "ROLE_PERMISSION_CHANGE", "role.permissions.update", "role", id, p, p)

RoleDataScopeHandler(c, a, id, p) ==
  Governed(c, "UpdateRoleDataScope", a, "ROLE_DATA_SCOPE_CHANGE", "role.data_scope.update", "role", id, p, p)

UserRolesHandler(c, a, id, p) ==
  Governed(c, "UpdateUserRoles", a, "USER_ROLE_CHANGE", "user.roles.update", "user", id, p, p)

\* The password is no part of what is approved.
PasswordResetHandler(c, a, id, p) ==
  Governed(c, "ResetUserPassword", a, "USER_PASSWORD_RESET", "user.password.reset", "user", id, ForceChange, p)

MenuHandler(c, a, id, p) ==
  Governed(c, "UpdateMenu", a, "MENU_CHANGE", "menu.update", "menu", id, p, p)

TemporaryGrantHandler(c, a, id, p) ==
  Governed(c, "CreateTemporaryRoleGrant", a, "TEMPORARY_ROLE_GRANT", "temporary_role_grant.create", "user", id, p, p)

EmergencyAccessHandler(c, a, id, p) ==
  Governed(c, "CreateEmergencyAccess", a, "EMERGENCY_ACCESS", "emergency_access.create", "emergency_access", id, p, p)

LinkIdentityHandler(c, a, id, p) ==
  Governed(c, "LinkFederatedIdentity", a, "FEDERATED_IDENTITY_LINK", "identity_mapping.link", "identity_mapping", id, p, p)

DataPolicyHandler(c, a, id, p) ==
  Governed(c, "UpsertDataFieldPolicy", a, "DATA_POLICY_CHANGE", "data_policy.upsert", "data_field_policy", id, p, p)

DataExportHandler(c, a, id, p) ==
  Governed(c, "AuthorizeDataExport", a, "DATA_EXPORT", "data.export", "data_field_policy", id, p, p)

DeletionEvidenceHandler(c, a, id, p) ==
  Governed(c, "RecordDataDeletionEvidence", a, "DATA_RETENTION", "data_retention.deletion_evidence.record",
           "data_deletion_evidence", id, p, p)

AuditExportHandler(c, a, p) ==
  Governed(c, "ExportAuditLogs", a, "AUDIT_LOG_EXPORT", "audit.export", "audit_log", "organization", p, p)

-----------------------------------------------------------------------------
(* Handlers that claim none.                                               *)

UserHandlers(c, id, p) ==
  \E op \in {"CreateUser", "UpdateUserStatus", "UnlockUser", "RevokeSession"} : Plain(c, op, id, p)

DepartmentHandlers(c, id, p) ==
  \E op \in {"CreateDepartment", "UpdateDepartment", "CreatePosition", "UpdatePosition"} : Plain(c, op, id, p)

GroupHandlers(c, id, p) ==
  \E op \in {"CreateUserGroup", "UpdateUserGroup", "UpdateUserGroupMembers", "UpdateUserGroupRoles"} :
    Plain(c, op, id, p)

OrganizationHandlers(c, id, p) ==
  \E op \in {"ReplaceUserAssignments", "UpdateOrganization"} : Plain(c, op, id, p)

RevocationHandlers(c, id, p) ==
  \E op \in {"RevokeTemporaryRoleGrant", "RevokeEmergencyAccess", "UnlinkFederatedIdentity"} : Plain(c, op, id, p)

ReviewHandlers(c, id, p) ==
  \E op \in {"CreateAccessReview", "DecideAccessReviewItem"} : Plain(c, op, id, p)

ApprovalHandlers(c, id, p) ==
  \E op \in {"CreateApproval", "DecideApproval", "TransferApproval", "WithdrawApproval"} : Plain(c, op, id, p)

IdentityHandlers(c, id, p) ==
  \E op \in {"ChangePassword", "StepUpAuthentication", "BeginMFAEnrollment", "ConfirmMFAEnrollment",
             "DisableMFA", "Logout", "CreateApiToken", "RevokeApiToken"} : Plain(c, op, id, p)

\* What approvals are asked for: the types, actions and resources of the handlers above.  A request
\* for anything else can be approved as well, and is of no use to any of them.
Intents ==
  {<<"SECURITY_POLICY_CHANGE", "security.config.update", "security">>,
   <<"ROLE_PERMISSION_CHANGE", "role.permissions.update", "role">>,
   <<"ROLE_DATA_SCOPE_CHANGE", "role.data_scope.update", "role">>,
   <<"USER_ROLE_CHANGE", "user.roles.update", "user">>,
   <<"USER_PASSWORD_RESET", "user.password.reset", "user">>,
   <<"MENU_CHANGE", "menu.update", "menu">>,
   <<"TEMPORARY_ROLE_GRANT", "temporary_role_grant.create", "user">>,
   <<"EMERGENCY_ACCESS", "emergency_access.create", "emergency_access">>,
   <<"FEDERATED_IDENTITY_LINK", "identity_mapping.link", "identity_mapping">>,
   <<"DATA_POLICY_CHANGE", "data_policy.upsert", "data_field_policy">>,
   <<"DATA_EXPORT", "data.export", "data_field_policy">>,
   <<"DATA_RETENTION", "data_retention.deletion_evidence.record", "data_deletion_evidence">>,
   <<"AUDIT_LOG_EXPORT", "audit.export", "audit_log">>}

HdNext ==
  \/ \E a \in HdApprovals, i \in Intents, id \in Ids \cup {"policy", "organization"}, p \in Contents \cup {ForceChange} :
       ApprovalGranted(a, Digest(i[1], i[2], i[3], id, p))
  \/ \E c \in Calls, a \in HdApprovals, p \in Contents :
       SecurityPolicyHandler(c, a, p) \/ AuditExportHandler(c, a, p)
  \/ \E c \in Calls, a \in HdApprovals, id \in Ids, p \in Contents :
       \/ RolePermissionsHandler(c, a, id, p) \/ RoleDataScopeHandler(c, a, id, p)
       \/ UserRolesHandler(c, a, id, p) \/ PasswordResetHandler(c, a, id, p)
       \/ MenuHandler(c, a, id, p) \/ TemporaryGrantHandler(c, a, id, p)
       \/ EmergencyAccessHandler(c, a, id, p) \/ LinkIdentityHandler(c, a, id, p)
       \/ DataPolicyHandler(c, a, id, p) \/ DataExportHandler(c, a, id, p)
       \/ DeletionEvidenceHandler(c, a, id, p)
  \/ \E c \in Calls, id \in Ids, p \in Contents :
       \/ UserHandlers(c, id, p) \/ DepartmentHandlers(c, id, p) \/ GroupHandlers(c, id, p)
       \/ OrganizationHandlers(c, id, p) \/ RevocationHandlers(c, id, p)
       \/ ReviewHandlers(c, id, p) \/ ApprovalHandlers(c, id, p) \/ IdentityHandlers(c, id, p)
  \/ \E c \in Calls : FailCall(c) \/ \E op \in Operations : RecordFailure(c, op)

HdSpec == HdInit /\ [][HdNext]_hdVars

-----------------------------------------------------------------------------
GovernedEffects == {e \in hdEffects : e.approval # NoApproval}

(* However many calls present the same approval, it is spent on one        *)
(* effect, and that effect is what was approved, down to its digest.       *)
OneEffectPerApproval ==
  /\ \A e \in GovernedEffects : hdApproval[e.approval] = {e.digest}
  /\ \A e, f \in GovernedEffects : e.approval = f.approval => e = f

(* The digest binds an approval to one handler, one record and one         *)
(* content: no approval for one change can be spent on another.  Only the  *)
(* new password of a reset is not bound.                                   *)
ApprovalNamesTheEffect ==
  \A e, f \in GovernedEffects :
    e.digest = f.digest =>
      /\ e.op = f.op /\ e.id = f.id
      /\ e.content = f.content \/ e.op = "ResetUserPassword"

(* Nothing takes effect without the record of its success, and a call      *)
(* takes effect at most once; a failure may be recorded beside it when the *)
(* outcome of the commit was not known.                                    *)
EffectsAreAudited ==
  /\ \A e \in hdEffects : [call |-> e.call, op |-> e.op, result |-> "SUCCESS"] \in hdAudit
  /\ \A e, f \in hdEffects : e.call = f.call => e = f

=============================================================================
