----------------------------- MODULE Operations -----------------------------
(***************************************************************************)
(* The operations of the four services and the tables the server consults  *)
(* before it runs one: the routes of the generated HTTP servers and gRPC   *)
(* service descriptions, the authorisation rules (authz/kratos.go), the    *)
(* operations open to everybody (bootstrap/app.go), those that want the    *)
(* double-submitted token (csrf/kratos.go), those that want a fresh second *)
(* factor (authorizeGrantActor, RequireRecentMFA) and the permissions that *)
(* the start-up creates (basePermissions).                                 *)
(***************************************************************************)

SystemOperations == {"Health", "Readiness", "GetSystemInfo"}

IdentityOperations ==
  {"BeginOIDCLogin", "GetCurrentUser", "GetMFAStatus", "ListApiTokens", "Login",
   "CompleteOIDCLogin", "LoginLDAP", "Logout", "ChangePassword", "StepUpAuthentication",
   "BeginMFAEnrollment", "ConfirmMFAEnrollment", "DisableMFA", "CreateApiToken", "RevokeApiToken"}

\* The routes of the administration service, those of method GET first.
PlatformReads ==
  {"ListUsers", "ListDepartments", "ListPositions", "ListUserGroups", "ListUserAssignments",
   "GetOrganization", "GetSecurityPolicy", "ListRoles", "ListPermissions", "ListMenus",
   "ListDataFieldPolicies", "DownloadDataExport", "ListDataDeletionEvidence", "ListSessions",
   "ListAuditLogs", "VerifyAuditIntegrity", "ExportAuditLogs", "ListTemporaryRoleGrants",
   "ListEmergencyAccess", "ListFederatedIdentityLinks", "ListAccessReviews",
   "ListAccessReviewItems", "ListConfigChanges"}

PlatformWrites ==
  {"CreateUser", "CreateDepartment", "UpdateDepartment", "CreatePosition", "UpdatePosition",
   "CreateUserGroup", "UpdateUserGroup", "UpdateUserGroupMembers", "UpdateUserGroupRoles",
   "ReplaceUserAssignments", "UpdateOrganization", "UpdateSecurityPolicy", "UpdateMenu",
   "UpsertDataFieldPolicy", "AuthorizeDataExport", "RevokeDataExport",
   "RecordDataDeletionEvidence", "UpdateRoleDataScope", "UpdateRolePermissions", "UpdateUserRoles",
   "UpdateUserStatus", "UnlockUser", "ResetUserPassword", "RevokeSession",
   "CreateTemporaryRoleGrant", "RevokeTemporaryRoleGrant", "CreateEmergencyAccess",
   "RevokeEmergencyAccess", "LinkFederatedIdentity", "UnlinkFederatedIdentity",
   "CreateAccessReview", "DecideAccessReviewItem", "CreateConfigChange", "ApproveConfigChange",
   "PublishConfigChange", "RequestConfigRollback", "RollbackConfigChange"}

\* The methods of the gRPC service description are the same operations.
PlatformOperations == PlatformReads \cup PlatformWrites

ApprovalOperations ==
  {"GetApproval", "ListApprovals", "CreateApproval", "DecideApproval", "TransferApproval",
   "WithdrawApproval"}

Operations == SystemOperations \cup IdentityOperations \cup PlatformOperations \cup ApprovalOperations

\* publicOperation: the selector puts no security middleware before these.
PublicOperations ==
  {"Health", "Readiness", "Login", "BeginOIDCLogin", "CompleteOIDCLogin", "LoginLDAP"}

\* PlatformRules: the permissions an operation is registered with; {} when it is not.
PlatformRules(op) ==
  CASE op = "ListUsers" -> {"system.user.read"}
    [] op = "CreateUser" -> {"system.user.create"}
    [] op = "ListDepartments" -> {"system.department.read"}
    [] op \in {"CreateDepartment", "UpdateDepartment"} -> {"system.department.manage"}
    [] op = "ListPositions" -> {"system.position.read"}
    [] op \in {"CreatePosition", "UpdatePosition"} -> {"system.position.manage"}
    [] op = "ListUserGroups" -> {"system.user_group.read"}
    [] op \in {"CreateUserGroup", "UpdateUserGroup", "UpdateUserGroupMembers", "UpdateUserGroupRoles"}
         -> {"system.user_group.manage"}
    [] op = "ListUserAssignments" -> {"system.user.assignment.read"}
    [] op = "ReplaceUserAssignments" -> {"system.user.assignment.manage"}
    [] op = "GetOrganization" -> {"system.organization.read"}
    [] op = "UpdateOrganization" -> {"system.organization.manage"}
    [] op \in {"GetSecurityPolicy", "ListConfigChanges"} -> {"system.config.read"}
    [] op = "UpdateSecurityPolicy" -> {"system.security.manage"}
    [] op \in {"ListRoles", "ListPermissions"} -> {"system.role.read"}
    [] op = "ListMenus" -> {"system.menu.read"}
    [] op = "UpdateMenu" -> {"system.menu.manage"}
    [] op = "ListDataFieldPolicies" -> {"system.data_policy.read"}
    [] op = "UpsertDataFieldPolicy" -> {"system.data_policy.manage"}
    [] op \in {"AuthorizeDataExport", "DownloadDataExport", "RevokeDataExport"} -> {"system.data.export"}
    [] op = "ListDataDeletionEvidence" -> {"system.data.retention.read"}
    [] op = "RecordDataDeletionEvidence" -> {"system.data.retention.manage"}
    [] op \in {"UpdateRolePermissions", "UpdateRoleDataScope"} -> {"system.role.manage"}
    [] op = "UpdateUserRoles" -> {"system.user.role.manage"}
    [] op \in {"UpdateUserStatus", "UnlockUser", "ResetUserPassword"} -> {"system.user.update"}
    [] op = "ListSessions" -> {"system.session.read"}
    [] op = "RevokeSession" -> {"system.session.revoke"}
    [] op = "ListAuditLogs" -> {"system.audit.read"}
    [] op = "ExportAuditLogs" -> {"system.audit.export"}
    [] op = "VerifyAuditIntegrity" -> {"system.audit.verify"}
    [] op = "ListTemporaryRoleGrants" -> {"system.temporary_grant.read"}
    [] op \in {"CreateTemporaryRoleGrant", "RevokeTemporaryRoleGrant"} -> {"system.temporary_grant.manage"}
    [] op = "ListEmergencyAccess" -> {"system.emergency_access.read"}
    [] op \in {"CreateEmergencyAccess", "RevokeEmergencyAccess"} -> {"system.emergency_access.manage"}
    [] op = "ListFederatedIdentityLinks" -> {"system.identity_mapping.read"}
    [] op \in {"LinkFederatedIdentity", "UnlinkFederatedIdentity"} -> {"system.identity_mapping.manage"}
    [] op \in {"ListAccessReviews", "ListAccessReviewItems"} -> {"system.access_review.read"}
    [] op \in {"CreateAccessReview", "DecideAccessReviewItem"} -> {"system.access_review.manage"}
    [] op \in {"CreateConfigChange", "ApproveConfigChange", "PublishConfigChange",
               "RequestConfigRollback", "RollbackConfigChange"} -> {"system.config.manage"}
    [] op = "CreateApproval" -> {"approval.request.create"}
    [] op \in {"GetApproval", "ListApprovals"} -> {"approval.request.read"}
    [] op = "DecideApproval" -> {"approval.task.decide"}
    [] op = "TransferApproval" -> {"approval.task.transfer"}
    [] op = "WithdrawApproval" -> {"approval.request.withdraw"}
    [] OTHER -> {}

\* protectedOperations.
ProtectedOperations ==
  {"Logout", "ChangePassword", "StepUpAuthentication", "CreateApiToken", "RevokeApiToken",
   "BeginMFAEnrollment", "ConfirmMFAEnrollment", "DisableMFA", "CreateUser", "UpdateOrganization",
   "UpdateSecurityPolicy", "UpdateRolePermissions", "UpdateRoleDataScope", "UpdateUserRoles",
   "UpdateUserStatus", "UnlockUser", "ResetUserPassword", "RevokeSession", "UpsertDataFieldPolicy",
   "AuthorizeDataExport", "RecordDataDeletionEvidence", "ExportAuditLogs",
   "CreateTemporaryRoleGrant", "RevokeTemporaryRoleGrant", "LinkFederatedIdentity",
   "UnlinkFederatedIdentity", "CreateAccessReview", "DecideAccessReviewItem", "CreateApproval",
   "DecideApproval", "TransferApproval", "WithdrawApproval"}

\* allowedBeforePasswordChange.
AllowedBeforePasswordChange == {"GetCurrentUser", "ChangePassword", "Logout"}

\* requireInteractivePrincipal in their handlers, and Logout's own check: no token may call these.
InteractiveOperations ==
  {"GetMFAStatus", "ListApiTokens", "Logout", "ChangePassword", "StepUpAuthentication",
   "BeginMFAEnrollment", "ConfirmMFAEnrollment", "DisableMFA", "CreateApiToken", "RevokeApiToken"}

\* authorizeGrantActor and RequireRecentMFA in their handlers.
SteppedUpOperations ==
  {"CreateUser", "CreateDepartment", "UpdateDepartment", "CreatePosition", "UpdatePosition",
   "CreateUserGroup", "UpdateUserGroup", "UpdateUserGroupMembers", "UpdateUserGroupRoles",
   "ReplaceUserAssignments", "UpdateMenu", "UpdateRoleDataScope", "UpdateRolePermissions",
   "UpdateUserRoles", "UpdateSecurityPolicy", "ResetUserPassword", "CreateTemporaryRoleGrant",
   "RevokeTemporaryRoleGrant", "CreateEmergencyAccess", "RevokeEmergencyAccess",
   "LinkFederatedIdentity", "UnlinkFederatedIdentity", "CreateAccessReview",
   "DecideAccessReviewItem", "UpsertDataFieldPolicy", "AuthorizeDataExport",
   "RecordDataDeletionEvidence", "ExportAuditLogs", "ApproveConfigChange", "PublishConfigChange",
   "RequestConfigRollback", "RollbackConfigChange", "CreateApproval", "DecideApproval",
   "TransferApproval"}

\* basePermissions: what Bootstrap creates, and a role can be given.
BasePermissions ==
  {"approval.request.create", "approval.request.read", "approval.request.withdraw",
   "approval.task.decide", "approval.task.transfer", "system.access_review.manage",
   "system.access_review.read", "system.audit.export", "system.audit.read", "system.audit.verify",
   "system.config.manage", "system.config.read", "system.data.export",
   "system.data.retention.manage", "system.data.retention.read", "system.data_policy.manage",
   "system.data_policy.read", "system.department.manage", "system.department.read",
   "system.emergency_access.manage", "system.emergency_access.read",
   "system.identity_mapping.manage", "system.identity_mapping.read", "system.menu.manage",
   "system.menu.read", "system.organization.manage", "system.organization.read",
   "system.position.manage", "system.position.read", "system.role.manage", "system.role.read",
   "system.security.manage", "system.session.read", "system.session.revoke", "system.status.read",
   "system.temporary_grant.manage", "system.temporary_grant.read", "system.user.assignment.manage",
   "system.user.assignment.read", "system.user.create", "system.user.read",
   "system.user.role.manage", "system.user.update", "system.user_group.manage",
   "system.user_group.read"}

-----------------------------------------------------------------------------
(* No operation of the two governed services is without a policy: the      *)
(* authorisation middleware would answer it with a refusal for everybody   *)
(* ("operation has no authorization policy").                              *)
EveryOperationHasAPolicy ==
  \A op \in PlatformOperations \cup ApprovalOperations : PlatformRules(op) # {}

(* Every permission that a rule asks for is one that the start-up creates, *)
(* so that a role other than the administrator's can be given it.          *)
RulesAreGrantable == \A op \in Operations : PlatformRules(op) \subseteq BasePermissions

(* What is open to everybody is never also governed by a rule, wants no    *)
(* fresh second factor and no token of the browser's session.              *)
PublicIsUngoverned ==
  \A op \in PublicOperations :
    /\ op \in Operations
    /\ PlatformRules(op) = {}
    /\ op \notin SteppedUpOperations \cup ProtectedOperations \cup InteractiveOperations

=============================================================================
