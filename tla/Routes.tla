------------------------------- MODULE Routes -------------------------------
(***************************************************************************)
(* The HTTP binding of the four services, as the generated code has it     *)
(* (api/gen/go/forge/v1/*_http.pb.go): the routes in the order of their    *)
(* handlers, what a handler binds into the message of its operation        *)
(* before anything else runs, and what the generated Go client sends.      *)
(***************************************************************************)
EXTENDS Operations, Naturals, Sequences

Route(method, op, path) == [method |-> method, op |-> op, path |-> path]

SystemRoutes ==
  {Route("GET", "Health", <<"system", "health">>),
   Route("GET", "Readiness", <<"system", "ready">>),
   Route("GET", "GetSystemInfo", <<"system", "info">>)}

LoginRoutes ==
  {Route("POST", "Login", <<"auth", "login">>),
   Route("GET", "BeginOIDCLogin", <<"auth", "federated", "oidc", ":provider", "begin">>),
   Route("POST", "CompleteOIDCLogin", <<"auth", "federated", "oidc", ":provider", "callback">>),
   Route("POST", "LoginLDAP", <<"auth", "federated", "ldap", ":provider">>),
   Route("POST", "Logout", <<"auth", "logout">>),
   Route("PATCH", "ChangePassword", <<"auth", "password">>)}

AccountRoutes ==
  {Route("POST", "StepUpAuthentication", <<"auth", "step-up">>),
   Route("GET", "GetCurrentUser", <<"me">>),
   Route("GET", "GetMFAStatus", <<"mfa">>),
   Route("POST", "BeginMFAEnrollment", <<"mfa", "totp", "enrollment">>),
   Route("POST", "ConfirmMFAEnrollment", <<"mfa", "totp", "enrollment", "confirmation">>),
   Route("POST", "DisableMFA", <<"mfa", "totp", "disable">>)}

TokenRoutes ==
  {Route("GET", "ListApiTokens", <<"api-tokens">>),
   Route("POST", "CreateApiToken", <<"api-tokens">>),
   Route("DELETE", "RevokeApiToken", <<"api-tokens", ":token_id">>)}

DepartmentRoutes ==
  {Route("GET", "ListUsers", <<"admin", "users">>),
   Route("POST", "CreateUser", <<"admin", "users">>),
   Route("GET", "ListDepartments", <<"admin", "departments">>),
   Route("POST", "CreateDepartment", <<"admin", "departments">>),
   Route("PATCH", "UpdateDepartment", <<"admin", "departments", ":department_id">>)}

GroupRoutes ==
  {Route("GET", "ListPositions", <<"admin", "positions">>),
   Route("POST", "CreatePosition", <<"admin", "positions">>),
   Route("PATCH", "UpdatePosition", <<"admin", "positions", ":position_id">>),
   Route("GET", "ListUserGroups", <<"admin", "user-groups">>),
   Route("POST", "CreateUserGroup", <<"admin", "user-groups">>),
   Route("PATCH", "UpdateUserGroup", <<"admin", "user-groups", ":group_id">>)}

MembershipRoutes ==
  {Route("PUT", "UpdateUserGroupMembers", <<"admin", "user-groups", ":group_id", "members">>),
   Route("PUT", "UpdateUserGroupRoles", <<"admin", "user-groups", ":group_id", "roles">>),
   Route("GET", "ListUserAssignments", <<"admin", "users", ":user_id", "assignments">>),
   Route("PUT", "ReplaceUserAssignments", <<"admin", "users", ":user_id", "assignments">>),
   Route("GET", "GetOrganization", <<"admin", "organization">>),
   Route("PATCH", "UpdateOrganization", <<"admin", "organization">>)}

SettingsRoutes ==
  {Route("GET", "GetSecurityPolicy", <<"admin", "security-config">>),
   Route("PUT", "UpdateSecurityPolicy", <<"admin", "security-config">>),
   Route("GET", "ListRoles", <<"admin", "roles">>),
   Route("GET", "ListPermissions", <<"admin", "permissions">>),
   Route("GET", "ListMenus", <<"admin", "menus">>),
   Route("PATCH", "UpdateMenu", <<"admin", "menus", ":menu_key">>)}

DataRoutes ==
  {Route("GET", "ListDataFieldPolicies", <<"admin", "data-policies">>),
   Route("PUT", "UpsertDataFieldPolicy", <<"admin", "data-policies", ":policy.field_key">>),
   Route("POST", "AuthorizeDataExport", <<"admin", "data-exports", "authorize">>),
   Route("GET", "DownloadDataExport", <<"admin", "data-exports", ":artifact_id">>),
   Route("POST", "RevokeDataExport", <<"admin", "data-exports", ":artifact_id", "revoke">>),
   Route("GET", "ListDataDeletionEvidence", <<"admin", "data-retention", "evidence">>),
   Route("POST", "RecordDataDeletionEvidence", <<"admin", "data-retention", "evidence">>)}

RightsRoutes ==
  {Route("PUT", "UpdateRoleDataScope", <<"admin", "roles", ":role_key", "data-scope">>),
   Route("PUT", "UpdateRolePermissions", <<"admin", "roles", ":role_key", "permissions">>),
   Route("PATCH", "UpdateUserRoles", <<"admin", "users", ":user_id", "roles">>),
   Route("PATCH", "UpdateUserStatus", <<"admin", "users", ":user_id", "status">>),
   Route("POST", "UnlockUser", <<"admin", "users", ":user_id", "unlock">>),
   Route("POST", "ResetUserPassword", <<"admin", "users", ":user_id", "reset-password">>)}

AuditRoutes ==
  {Route("GET", "ListSessions", <<"admin", "sessions">>),
   Route("DELETE", "RevokeSession", <<"admin", "sessions", ":session_id">>),
   Route("GET", "ListAuditLogs", <<"admin", "audit-logs">>),
   Route("GET", "VerifyAuditIntegrity", <<"admin", "audit-logs", "integrity">>),
   Route("GET", "ExportAuditLogs", <<"admin", "audit-logs", "export">>)}

GrantRoutes ==
  {Route("GET", "ListTemporaryRoleGrants", <<"admin", "temporary-role-grants">>),
   Route("POST", "CreateTemporaryRoleGrant", <<"admin", "temporary-role-grants">>),
   Route("POST", "RevokeTemporaryRoleGrant", <<"admin", "temporary-role-grants", ":grant_id:revoke">>),
   Route("GET", "ListEmergencyAccess", <<"admin", "emergency-access">>),
   Route("POST", "CreateEmergencyAccess", <<"admin", "emergency-access">>),
   Route("POST", "RevokeEmergencyAccess", <<"admin", "emergency-access", ":grant_id:revoke">>)}

ReviewRoutes ==
  {Route("GET", "ListFederatedIdentityLinks", <<"admin", "identity-mappings">>),
   Route("POST", "LinkFederatedIdentity", <<"admin", "identity-mappings">>),
   Route("POST", "UnlinkFederatedIdentity", <<"admin", "identity-mappings", ":link_id:unlink">>),
   Route("GET", "ListAccessReviews", <<"admin", "access-reviews">>),
   Route("POST", "CreateAccessReview", <<"admin", "access-reviews">>),
   Route("GET", "ListAccessReviewItems", <<"admin", "access-reviews", ":review_id", "items">>),
   Route("POST", "DecideAccessReviewItem",
         <<"admin", "access-reviews", ":review_id", "items", ":item_id", "decisions">>)}

ConfigRoutes ==
  {Route("GET", "ListConfigChanges", <<"admin", "config-changes">>),
   Route("POST", "CreateConfigChange", <<"admin", "config-changes">>),
   Route("POST", "ApproveConfigChange", <<"admin", "config-changes", ":change_id", "approve">>),
   Route("POST", "PublishConfigChange", <<"admin", "config-changes", ":change_id", "publish">>),
   Route("POST", "RequestConfigRollback", <<"admin", "config-changes", ":change_id", "rollback-request">>),
   Route("POST", "RollbackConfigChange", <<"admin", "config-changes", ":change_id", "rollback">>)}

ApprovalRoutes ==
  {Route("POST", "CreateApproval", <<"approvals">>),
   Route("GET", "GetApproval", <<"approvals", ":approval_id">>),
   Route("GET", "ListApprovals", <<"approvals">>),
   Route("POST", "DecideApproval", <<"approvals", ":approval_id", "decisions">>),
   Route("POST", "TransferApproval", <<"approvals", ":approval_id", "transfer">>),
   Route("POST", "WithdrawApproval", <<"approvals", ":approval_id", "withdraw">>)}

PlatformRoutes ==
  DepartmentRoutes \cup GroupRoutes \cup MembershipRoutes \cup SettingsRoutes \cup DataRoutes
    \cup RightsRoutes \cup AuditRoutes \cup GrantRoutes \cup ReviewRoutes \cup ConfigRoutes

AllRoutes == SystemRoutes \cup LoginRoutes \cup AccountRoutes \cup TokenRoutes \cup PlatformRoutes \cup ApprovalRoutes

\* The segments of a path that stand for a field, written {field} in the code.
Variables ==
  {":provider", ":token_id", ":department_id", ":position_id", ":group_id", ":user_id", ":menu_key",
   ":policy.field_key", ":artifact_id", ":role_key", ":session_id", ":grant_id:revoke",
   ":link_id:unlink", ":review_id", ":item_id", ":change_id", ":approval_id"}

PathVars(route) == {route.path[i] : i \in DOMAIN route.path} \cap Variables

-----------------------------------------------------------------------------
(* A message is a function from its fields to values; Unset is the value   *)
(* of a field that was not sent.  A request has three places to put them.  *)
CONSTANTS Fields,  \* field names, the variables of the paths among them
          Values,  \* what a field is set to
          Unset

MessageAssumption ==
  /\ Variables \cup {"policy", "approval_id"} \subseteq Fields
  /\ Unset \notin Values

Messages == [Fields -> Values \cup {Unset}]
Nothing == [f \in Fields |-> Unset]
Only(in, F) == [f \in Fields |-> IF f \in F THEN in[f] ELSE Unset]
Over(top, below) == [f \in Fields |-> IF top[f] = Unset THEN below[f] ELSE top[f]]

\* What the body of a route is bound to: ctx.Bind(&in), ctx.Bind(&in.Policy), or nothing.
BodyFields(route) ==
  CASE route.method \in {"GET", "DELETE"} -> {}
    [] route.op = "UpdateSecurityPolicy" -> {"policy"}
    [] OTHER -> Fields

\* The handlers bind the body, then the query over it, then the variables of the path over both.
Bound(route, request) ==
  Over(Only(request.path, PathVars(route)), Over(request.query, Only(request.body, BodyFields(route))))

\* The generated client: the variables go into the path, the rest into the body, or, for GET and
\* DELETE, into the query (EncodeURL's last argument).
ClientRequest(route, in) ==
  [path  |-> Only(in, PathVars(route)),
   query |-> IF route.method \in {"GET", "DELETE"} THEN Only(in, Fields \ PathVars(route)) ELSE Nothing,
   body  |-> Only(in, BodyFields(route))]

-----------------------------------------------------------------------------
(* Every operation of the services is reachable by HTTP.                   *)
EveryOperationIsRouted == Operations = {r.op : r \in AllRoutes}

Meet(r, s) ==
  /\ r.method = s.method
  /\ Len(r.path) = Len(s.path)
  /\ \A i \in 1..Len(r.path) : r.path[i] = s.path[i] \/ {r.path[i], s.path[i]} \cap Variables # {}

(* No request matches two routes: which operation runs, and with it the    *)
(* rule it is authorised by, does not depend on the order of registration. *)
RoutesAreUnambiguous == \A r, s \in AllRoutes : Meet(r, s) => r = s

(* What a Go program passes to the generated client is what the handler    *)
(* gets, for every route but one: UpdateSecurityPolicy sends its policy as *)
(* the body and nothing in the query, so that the approval it names never  *)
(* arrives (platform_http.pb.go, EncodeURL(pattern, in, false) with        *)
(* in.Policy).  The web console adds it to the query by hand.              *)
ClientIsUnderstood ==
  \A r \in AllRoutes, in \in Messages :
    Bound(r, ClientRequest(r, in)) =
      IF r.op = "UpdateSecurityPolicy" THEN Only(in, {"policy"}) ELSE in

(* A record named in the path is the record the handler works on, whatever *)
(* the query or the body say.                                              *)
PathWins ==
  \A r \in AllRoutes, p, q, b \in Messages : \A v \in PathVars(r) :
    p[v] # Unset => Bound(r, [path |-> p, query |-> q, body |-> b])[v] = p[v]

=============================================================================
