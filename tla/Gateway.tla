------------------------------- MODULE Gateway -------------------------------
(***************************************************************************)
(* A request on its way to its handler: the filters of the HTTP server,    *)
(* the binding of the message, authentication (authn/kratos.go, several    *)
(* reads of the database outside of any transaction), the double-submitted *)
(* token (csrf/kratos.go), authorisation (authz/kratos.go) and the checks  *)
(* at the head of a handler.  Meanwhile other requests change the account, *)
(* its roles, its organisation, its sessions and tokens.  One account is   *)
(* modelled, with its browser sessions and API tokens.                     *)
(***************************************************************************)
EXTENDS Operations, Integers

CONSTANTS GwRequests,     \* requests on their way, each used once
          GwSessions,     \* sessions the account can get
          GwTokens,       \* API tokens the account can get
          GwPermissions,  \* permissions its roles can have
          GwMaxAges,      \* values of the policy's password_max_age, 0 for no limit
          MfaWindow       \* recentMFAWindow

Credentials == GwSessions \cup GwTokens
NoCredential == "none"
Never == -1  \* mfa_verified_at is NULL

GatewayAssumption ==
  /\ GwSessions \cap GwTokens = {}
  /\ NoCredential \notin Credentials
  /\ MfaWindow \in Nat
  /\ GwMaxAges \subseteq Nat
  /\ "*" \notin GwPermissions

VARIABLES
  gwWorld,  \* the rows that the checks read, and the clock
  gwReq,    \* gwReq[r]: how far the request got, and what was read for it so far
  gwSeen    \* history: gwSeen[r] holds every state of the rows since the request arrived

gwVars == <<gwWorld, gwReq, gwSeen>>

Worlds ==
  [active : BOOLEAN,                            \* users.status = 'ACTIVE'
   org    : BOOLEAN,                            \* organizations.status = 'ACTIVE'
   must   : BOOLEAN,                            \* users.must_change_password
   changed : Nat,                               \* users.password_changed_at
   maxAge : GwMaxAges,                          \* of the organisation's security policy
   admin  : BOOLEAN,                            \* the effective roles contain system_admin
   grants : SUBSET GwPermissions,               \* PermissionsForUser
   live   : SUBSET Credentials,                 \* rows that exist, are not revoked and not expired
   mfa    : [GwSessions -> Nat \cup {Never}],   \* mfa_verified_at
   scopes : [GwTokens -> SUBSET (GwPermissions \cup {"*"})],
   now    : Nat]

Stages == {"new", "bound", "row", "mfa", "roles", "grants", "org", "principal", "csrf", "authorised", "handled", "refused"}

GwRows ==
  [at : Stages, op : Operations, by : Credentials \cup {NoCredential}, http : BOOLEAN,
   twin : BOOLEAN,   \* the X-CSRF-Token header equals the cookie
   must : BOOLEAN, changed : Nat,   \* of the user's row, as read
   due : BOOLEAN, mfa : Nat \cup {Never}, admin : BOOLEAN, grants : SUBSET GwPermissions,
   scopes : SUBSET (GwPermissions \cup {"*"}), when : Nat]

NewRequest ==
  [at |-> "new", op |-> "Health", by |-> NoCredential, http |-> TRUE, twin |-> FALSE, must |-> FALSE,
   changed |-> 0, due |-> FALSE, mfa |-> Never, admin |-> FALSE, grants |-> {}, scopes |-> {}, when |-> 0]

GwTypeOK ==
  /\ gwWorld \in Worlds
  /\ gwReq \in [GwRequests -> GwRows]
  /\ gwSeen \in [GwRequests -> SUBSET Worlds]

GwInit ==
  /\ \E must \in BOOLEAN, maxAge \in GwMaxAges :
       gwWorld = [active |-> TRUE, org |-> TRUE, must |-> must, changed |-> 0, maxAge |-> maxAge, admin |-> FALSE,
                  grants |-> {}, live |-> {}, mfa |-> [s \in GwSessions |-> Never],
                  scopes |-> [t \in GwTokens |-> {}], now |-> 0]
  /\ gwReq = [r \in GwRequests |-> NewRequest]
  /\ gwSeen = [r \in GwRequests |-> {}]

Become(w) ==
  /\ gwWorld' = w
  /\ gwSeen' = [r \in GwRequests |-> gwSeen[r] \cup {w}]

\* passwordExpiredAt.
PasswordExpired(changed, maxAge, now) == maxAge > 0 /\ now - changed > maxAge

Due(w) == w.must \/ PasswordExpired(w.changed, w.maxAge, w.now)

-----------------------------------------------------------------------------
(* Others.                                                                 *)

\* Roles, status, organisation and policy change, credentials are revoked or expire, time passes.
OthersAct(active, org, maxAge, admin, grants, gone, later) ==
  /\ Become([gwWorld EXCEPT !.active = active, !.org = org, !.maxAge = maxAge, !.admin = admin,
                            !.grants = grants, !.live = @ \ gone, !.now = @ + later])
  /\ UNCHANGED gwReq

\* An administrator resets the password, which ends the account's sessions.
ResetPassword ==
  /\ Become([gwWorld EXCEPT !.must = TRUE, !.changed = gwWorld.now, !.live = @ \ GwSessions])
  /\ UNCHANGED gwReq

\* A login creates a session, with the second factor or without.
NewSession(s, verified) ==
  /\ s \notin gwWorld.live
  /\ Become([gwWorld EXCEPT !.live = @ \cup {s}, !.mfa[s] = IF verified THEN gwWorld.now ELSE Never])
  /\ UNCHANGED gwReq

-----------------------------------------------------------------------------
(* Before the security middleware.                                         *)

\* Filters and the generated handler: an origin that is not allowed, a preflight, a body that is
\* too large and a message that cannot be bound are answered here.  Nothing is authenticated yet.
ReceiveHTTP(r, op, by, twin) ==
  /\ gwReq[r].at = "new"
  /\ gwReq' = [gwReq EXCEPT ![r] = [NewRequest EXCEPT !.at = "bound", !.op = op, !.by = by, !.twin = twin]]
  /\ gwSeen' = [gwSeen EXCEPT ![r] = {gwWorld}]
  /\ UNCHANGED gwWorld

ReceiveGRPC(r, op, by) ==
  /\ gwReq[r].at = "new"
  /\ gwReq' = [gwReq EXCEPT ![r] = [NewRequest EXCEPT !.at = "bound", !.op = op, !.by = by, !.http = FALSE]]
  /\ gwSeen' = [gwSeen EXCEPT ![r] = {gwWorld}]
  /\ UNCHANGED gwWorld

\* Any check that does not hold and any read that fails ends the request; so does a panic.
RefuseRequest(r) ==
  /\ gwReq[r].at \notin {"new", "handled", "refused"}
  /\ gwReq' = [gwReq EXCEPT ![r].at = "refused"]
  /\ UNCHANGED <<gwWorld, gwSeen>>

-----------------------------------------------------------------------------
(* authn: one statement per step.                                          *)

Goes(r, from, row) ==
  /\ gwReq[r].at = from
  /\ gwReq' = [gwReq EXCEPT ![r] = row]
  /\ UNCHANGED <<gwWorld, gwSeen>>

\* PrincipalBySessionHash, PrincipalByAPITokenHash: the row of the credential joined with the user's.
ReadCredential(r) ==
  /\ gwReq[r].op \notin PublicOperations
  /\ gwReq[r].by \in gwWorld.live
  /\ gwWorld.active
  /\ Goes(r, "bound",
          [gwReq[r] EXCEPT !.at = "row", !.must = gwWorld.must, !.changed = gwWorld.changed,
                           !.scopes = IF gwReq[r].by \in GwTokens THEN gwWorld.scopes[gwReq[r].by] ELSE {}])

\* A session is read once more, for mfa_verified_at; a token has none.
ReadMFA(r) ==
  \/ /\ gwReq[r].by \in gwWorld.live \cap GwSessions
     /\ Goes(r, "row", [gwReq[r] EXCEPT !.at = "mfa", !.mfa = gwWorld.mfa[gwReq[r].by]])
  \/ /\ gwReq[r].by \in GwTokens
     /\ Goes(r, "row", [gwReq[r] EXCEPT !.at = "mfa"])

\* RolesForUser; its error is dropped and leaves the principal without roles.
ReadRoles(r) ==
  \E admin \in {gwWorld.admin, FALSE} : Goes(r, "mfa", [gwReq[r] EXCEPT !.at = "roles", !.admin = admin])

\* PermissionsForUser, likewise.
ReadPermissions(r) ==
  \E grants \in {gwWorld.grants, {}} : Goes(r, "roles", [gwReq[r] EXCEPT !.at = "grants", !.grants = grants])

\* OrganizationByID.
ReadOrganization(r) == gwWorld.org /\ Goes(r, "grants", [gwReq[r] EXCEPT !.at = "org"])

\* resolveSecurityPolicy: the limit that is read now, and the clock, are applied to the row that was
\* read first.  An old password is a restriction for a session and the end for a token.
ReadPolicy(r) ==
  LET due == gwReq[r].must \/ PasswordExpired(gwReq[r].changed, gwWorld.maxAge, gwWorld.now)
  IN  /\ gwReq[r].by \in GwTokens => ~due
      /\ Goes(r, "org", [gwReq[r] EXCEPT !.at = "principal", !.due = due])

-----------------------------------------------------------------------------
(* csrf and authz.                                                         *)

\* The double-submitted token is asked for over HTTP only, and not of API tokens.
CheckCSRF(r) ==
  /\ \/ ~gwReq[r].http
     \/ gwReq[r].op \notin ProtectedOperations
     \/ gwReq[r].by \in GwTokens
     \/ gwReq[r].twin
  /\ Goes(r, "principal", [gwReq[r] EXCEPT !.at = "csrf"])

\* Principal.HasPermission.
HasPermission(q, keys) ==
  /\ q.by \in GwTokens => \A k \in keys : k \in q.scopes \/ "*" \in q.scopes
  /\ q.admin \/ keys \cap q.grants # {}

Authorize(r) ==
  LET op == gwReq[r].op
  IN  /\ gwReq[r].due => op \in AllowedBeforePasswordChange
      /\ IF PlatformRules(op) = {} THEN op \notin PlatformOperations \cup ApprovalOperations
                                   ELSE HasPermission(gwReq[r], PlatformRules(op))
      /\ Goes(r, "csrf", [gwReq[r] EXCEPT !.at = "authorised"])

-----------------------------------------------------------------------------
(* The handler.                                                            *)

\* RequireRecentMFA looks at what was read when the request was authenticated.
RecentMFA(q) == q.mfa # Never /\ gwWorld.now - q.mfa \in 0..MfaWindow

Admitted(r) ==
  \/ gwReq[r].at = "bound" /\ gwReq[r].op \in PublicOperations
  \/ /\ gwReq[r].at = "authorised"
     /\ gwReq[r].op \in InteractiveOperations => gwReq[r].by \in GwSessions
     /\ gwReq[r].op \in SteppedUpOperations => RecentMFA(gwReq[r])

Handled(r) == gwReq' = [gwReq EXCEPT ![r].at = "handled", ![r].when = gwWorld.now]

\* Handlers that leave the credentials of the account alone.
Handle(r) ==
  /\ Admitted(r)
  /\ Handled(r)
  /\ UNCHANGED <<gwWorld, gwSeen>>

\* StepUpAuthentication: password and second factor were right; the session's row is updated if it
\* still exists (MarkSessionMFAVerified).
StepUpAuthentication(r) ==
  /\ Admitted(r) /\ gwReq[r].op = "StepUpAuthentication"
  /\ gwReq[r].by \in gwWorld.live
  /\ Handled(r)
  /\ Become([gwWorld EXCEPT !.mfa[gwReq[r].by] = gwWorld.now])

\* ChangePassword ends the account's other sessions.
ChangePassword(r) ==
  /\ Admitted(r) /\ gwReq[r].op = "ChangePassword"
  /\ Handled(r)
  /\ Become([gwWorld EXCEPT !.must = FALSE, !.changed = gwWorld.now,
                            !.live = @ \ (GwSessions \ {gwReq[r].by})])

Logout(r) ==
  /\ Admitted(r) /\ gwReq[r].op = "Logout"
  /\ Handled(r)
  /\ Become([gwWorld EXCEPT !.live = @ \ {gwReq[r].by}])

\* CreateAPIToken: the user is read again; what the token may do is at most what the user may do
\* now, and "*" is for system administrators.
CreateAPIToken(r, t, scopes) ==
  /\ Admitted(r) /\ gwReq[r].op = "CreateApiToken"
  /\ ~Due(gwWorld)
  /\ scopes \subseteq gwWorld.grants \cup (IF gwWorld.admin THEN {"*"} ELSE {})
  /\ t \notin gwWorld.live
  /\ Handled(r)
  /\ Become([gwWorld EXCEPT !.live = @ \cup {t}, !.scopes[t] = scopes])

RevokeAPIToken(r, t) ==
  /\ Admitted(r) /\ gwReq[r].op = "RevokeApiToken"
  /\ t \in gwWorld.live
  /\ Handled(r)
  /\ Become([gwWorld EXCEPT !.live = @ \ {t}])

GwNext ==
  \/ \E active, org, admin \in BOOLEAN, maxAge \in GwMaxAges, grants \in SUBSET GwPermissions,
        gone \in SUBSET Credentials, later \in 0..1 : OthersAct(active, org, maxAge, admin, grants, gone, later)
  \/ ResetPassword
  \/ \E s \in GwSessions, verified \in BOOLEAN : NewSession(s, verified)
  \/ \E r \in GwRequests, op \in Operations, by \in Credentials \cup {NoCredential} :
       ReceiveGRPC(r, op, by) \/ \E twin \in BOOLEAN : ReceiveHTTP(r, op, by, twin)
  \/ \E r \in GwRequests :
       \/ RefuseRequest(r) \/ ReadCredential(r) \/ ReadMFA(r) \/ ReadRoles(r) \/ ReadPermissions(r)
       \/ ReadOrganization(r) \/ ReadPolicy(r) \/ CheckCSRF(r) \/ Authorize(r)
       \/ Handle(r) \/ StepUpAuthentication(r) \/ ChangePassword(r) \/ Logout(r)
       \/ \E t \in GwTokens, scopes \in SUBSET (GwPermissions \cup {"*"}) : CreateAPIToken(r, t, scopes)
       \/ \E t \in GwTokens : RevokeAPIToken(r, t)

GwSpec == GwInit /\ [][GwNext]_gwVars

-----------------------------------------------------------------------------
(* Properties.  None of the checks is atomic with the others or with the   *)
(* handler; what they do promise is that each condition held at some       *)
(* moment between the arrival of the request and its handler.              *)

Ran(r) == gwReq[r].at = "handled" /\ gwReq[r].op \notin PublicOperations

(* A handler runs only for a credential that was valid, of an account that *)
(* was active in an active organisation, while the request was on its way: *)
(* whatever was revoked or disabled before the request arrived stays out.  *)
OnlyLiveCredentials ==
  \A r \in GwRequests : Ran(r) =>
    /\ \E w \in gwSeen[r] : gwReq[r].by \in w.live /\ w.active
    /\ \E w \in gwSeen[r] : w.org

(* A governed operation runs only for a user who held one of its           *)
(* permissions, or was system administrator, while the request was on its  *)
(* way; an API token must have been created for all of them besides, and   *)
(* never lends a permission its user has lost.                             *)
OnlyAsGranted ==
  \A r \in GwRequests : Ran(r) /\ PlatformRules(gwReq[r].op) # {} =>
    /\ \E w \in gwSeen[r] : w.admin \/ PlatformRules(gwReq[r].op) \cap w.grants # {}
    /\ gwReq[r].by \in GwTokens =>
         \E w \in gwSeen[r] : PlatformRules(gwReq[r].op) \subseteq w.scopes[gwReq[r].by] \/ "*" \in w.scopes[gwReq[r].by]

(* An operation that asks for a fresh second factor runs only for a        *)
(* session whose factor had been verified at most MfaWindow before.        *)
OnlySteppedUp ==
  \A r \in GwRequests : Ran(r) /\ gwReq[r].op \in SteppedUpOperations =>
    /\ gwReq[r].by \in GwSessions
    /\ \E w \in gwSeen[r] : /\ w.mfa[gwReq[r].by] # Never
                            /\ gwReq[r].when - w.mfa[gwReq[r].by] \in 0..MfaWindow

(* While a password is due for a change its owner reaches three operations *)
(* and an API token none.  The row and the policy are read in separate     *)
(* queries, so what is promised of anything else that runs is this: the    *)
(* row that let the credential in demanded no change, and its password was *)
(* within the limit of a policy in force at that moment or later in the    *)
(* request.  When the policy has not changed on the way, the password was  *)
(* not due when the row was read.  (When it was relaxed on the way, the    *)
(* password may have been due at every moment.)                            *)
OnlyWithCurrentPassword ==
  \A r \in GwRequests : Ran(r) /\ (gwReq[r].op \notin AllowedBeforePasswordChange \/ gwReq[r].by \in GwTokens) =>
    /\ \E row, later \in gwSeen[r] :
         /\ gwReq[r].by \in row.live /\ row.active /\ ~row.must
         /\ row.now <= later.now /\ ~PasswordExpired(row.changed, later.maxAge, later.now)
    /\ (\A v, w \in gwSeen[r] : v.maxAge = w.maxAge) => \E w \in gwSeen[r] : ~Due(w)

=============================================================================
