--------------------------- MODULE RoleAssignment ---------------------------
(***************************************************************************)
(* Who holds which role (internal/app/identity, repository/identity.go,    *)
(* temporary_grants.go).  A user's roles come from three places: the roles *)
(* assigned to the user, those of the active groups the user belongs to,   *)
(* and the temporary grants in force.  An administrative call first reads  *)
(* these tables without locks and decides (Check), and then writes under   *)
(* the lock of the one row it changes and commits (Write); the only thing  *)
(* it looks at again is that an active system administrator remains.       *)
(*                                                                         *)
(* The role "user", which every account without another role gets, takes   *)
(* part in no rule and is left out of the sets of roles.                   *)
(***************************************************************************)
EXTENDS Naturals, FiniteSets

CONSTANTS Users,      \* accounts, existing and future ones
          Root,       \* the administrator that Bootstrap creates
          Groups,     \* user groups, existing and future ones
          Grants,     \* identities of temporary grants
          Roles,      \* role keys of the organization
          Conflicts,  \* the active role conflict rules, as pairs of roles
          Calls       \* API requests that can be in flight together

ASSUME RolesAssumption ==
  /\ Root \in Users
  /\ "system_admin" \in Roles
  /\ Conflicts \subseteq SUBSET Roles
  /\ IsFiniteSet(Users)

\* system_admin cannot be given to a group or for a limited time.
LimitedRoles == Roles \ {"system_admin"}

VARIABLES
  status,   \* status[u]: users.status, "NONE" for an account not yet created
  direct,   \* direct[u]: user_roles
  gstatus,  \* gstatus[g]: user_groups.status, "NONE" for a group not yet created
  members,  \* members[g]: user_group_members
  groles,   \* groles[g]: user_group_roles
  grant,    \* grant[x]: the temporary grant x
  call,     \* call[c]: what request c has decided and not yet written
  stale     \* history: requests during which another one has committed

vars == <<status, direct, gstatus, members, groles, grant, call, stale>>

Statuses == {"NONE", "ACTIVE", "DISABLED"}
NoGrant == [phase |-> "NONE"]
GrantRows == [user : Users, role : LimitedRoles,
              phase : {"SCHEDULED", "ACTIVE", "EXPIRED", "REVOKED"}]

\* A decision: the operation and its arguments; byAdmin (history): its actor was a system_admin.
Idle == [op |-> "IDLE"]
Decisions ==
  [op : {"CreateUser", "UpdateUserRoles"}, user : Users, roles : SUBSET Roles, byAdmin : BOOLEAN]
  \cup [op : {"UpdateUserGroup"}, group : Groups, status : {"ACTIVE", "DISABLED"}]
  \cup [op : {"UpdateUserGroupMembers"}, group : Groups, members : SUBSET Users]
  \cup [op : {"UpdateUserGroupRoles"}, group : Groups, roles : SUBSET LimitedRoles]
  \cup [op : {"CreateTemporaryRoleGrant"}, user : Users, role : LimitedRoles]

TypeOK ==
  /\ status \in [Users -> Statuses]
  /\ direct \in [Users -> SUBSET Roles]
  /\ gstatus \in [Groups -> Statuses]
  /\ members \in [Groups -> SUBSET {u \in Users : status[u] # "NONE"}]
  /\ groles \in [Groups -> SUBSET LimitedRoles]
  /\ grant \in [Grants -> GrantRows \cup {NoGrant}]
  /\ call \in [Calls -> Decisions \cup {Idle}]
  /\ stale \subseteq Calls

\* Bootstrap has run: one administrator, the built-in roles and their conflict rules.
Init ==
  /\ status = [u \in Users |-> IF u = Root THEN "ACTIVE" ELSE "NONE"]
  /\ direct = [u \in Users |-> IF u = Root THEN {"system_admin"} ELSE {}]
  /\ gstatus = [g \in Groups |-> "NONE"]
  /\ members = [g \in Groups |-> {}]
  /\ groles = [g \in Groups |-> {}]
  /\ grant = [x \in Grants |-> NoGrant]
  /\ call = [c \in Calls |-> Idle]
  /\ stale = {}

-----------------------------------------------------------------------------
(* What the queries return.                                                *)

ActiveGroups(u) == {g \in Groups : gstatus[g] = "ACTIVE" /\ u \in members[g]}

\* Mutant: the roles of the user's groups are not looked up.
GroupRolesForUserNone(u) == {}

GroupRolesForUser(u) == UNION {groles[g] : g \in ActiveGroups(u)}

TemporaryRoles(u) ==
  {grant[x].role : x \in {y \in Grants : grant[y].phase = "ACTIVE" /\ grant[y].user = u}}

RolesForUser(u) == direct[u] \cup GroupRolesForUser(u) \cup TemporaryRoles(u)

\* UserByID: an error of RolesForUser is dropped and leaves the user without roles.
RolesRead(u) == {RolesForUser(u), {}}

RolesForUserExcludingGroup(u, g) ==
  direct[u] \cup UNION {groles[h] : h \in ActiveGroups(u) \ {g}} \cup TemporaryRoles(u)

hasRoleConflict(roles) == \E rule \in Conflicts : rule \subseteq roles

validateGroupMembers(g, roles, users) ==
  \A u \in users : ~hasRoleConflict(RolesForUserExcludingGroup(u, g) \cup roles)

IsAdmin(a) == "system_admin" \in RolesForUser(a)

changedValues(current, next) == (current \ next) \cup (next \ current)

\* Mutant: only what is taken away has to be within the ceiling.
enforceRemovalOnly(a, current, next) == IsAdmin(a) \/ current \ next \subseteq RolesForUser(a)

\* The grant ceiling: others than system_admin change only roles they hold.
enforceRoleMutation(a, current, next) ==
  IsAdmin(a) \/ changedValues(current, next) \subseteq RolesForUser(a)

-----------------------------------------------------------------------------
(* The first half of a request: actor a is authenticated, the tables are   *)
(* read and the decision is kept in memory.                                *)

Decide(c, decision) ==
  /\ call' = [call EXCEPT ![c] = decision]
  /\ stale' = stale \ {c}
  /\ UNCHANGED <<status, direct, gstatus, members, groles, grant>>

CheckCreateUser(c, a, u, roles) ==
  /\ status[u] = "NONE"
  /\ enforceRoleMutation(a, {}, roles)
  /\ ~hasRoleConflict(roles)
  /\ Decide(c, [op |-> "CreateUser", user |-> u, roles |-> roles, byAdmin |-> IsAdmin(a)])

\* Temporary grants count for the ceiling and not for the conflicts.
CheckUserRoles(c, a, u, roles) ==
  /\ status[u] # "NONE"
  /\ \E current \in RolesRead(u) : enforceRoleMutation(a, current, roles)
  /\ ~hasRoleConflict(roles \cup GroupRolesForUser(u))
  /\ Decide(c, [op |-> "UpdateUserRoles", user |-> u, roles |-> roles, byAdmin |-> IsAdmin(a)])

\* A status that is already the stored one is not validated, but it is written.
CheckUserGroup(c, a, g, s) ==
  /\ gstatus[g] # "NONE"
  /\ gstatus[g] # s =>
       /\ enforceRoleMutation(a, groles[g], {})
       /\ s = "ACTIVE" => validateGroupMembers(g, groles[g], members[g])
  /\ Decide(c, [op |-> "UpdateUserGroup", group |-> g, status |-> s])

CheckGroupMembers(c, a, g, users) ==
  /\ gstatus[g] # "NONE"
  /\ enforceRoleMutation(a, {}, groles[g])
  /\ validateGroupMembers(g, groles[g], users)
  /\ Decide(c, [op |-> "UpdateUserGroupMembers", group |-> g, members |-> users])

CheckGroupRoles(c, a, g, roles) ==
  /\ gstatus[g] # "NONE"
  /\ "system_admin" \notin roles
  /\ enforceRoleMutation(a, groles[g], roles)
  /\ validateGroupMembers(g, roles, members[g])
  /\ Decide(c, [op |-> "UpdateUserGroupRoles", group |-> g, roles |-> roles])

\* Nobody grants himself a role, and the roles are judged as they are now, not when the grant begins.
CheckTemporaryGrant(c, a, u, role) ==
  /\ a # u
  /\ role # "system_admin"
  /\ status[u] = "ACTIVE"
  /\ \E current \in RolesRead(u) :
       enforceRoleMutation(a, current, current \cup {role}) /\ ~hasRoleConflict(current \cup {role})
  /\ Decide(c, [op |-> "CreateTemporaryRoleGrant", user |-> u, role |-> role])

Check(c) ==
  /\ call[c] = Idle
  /\ \E a \in {u \in Users : status[u] = "ACTIVE"} :
       \/ \E u \in Users, roles \in SUBSET Roles : CheckCreateUser(c, a, u, roles) \/ CheckUserRoles(c, a, u, roles)
       \/ \E u \in Users, role \in Roles : CheckTemporaryGrant(c, a, u, role)
       \/ \E g \in Groups :
            \/ \E s \in {"ACTIVE", "DISABLED"} : CheckUserGroup(c, a, g, s)
            \/ \E users \in SUBSET Users : CheckGroupMembers(c, a, g, users)
            \/ \E roles \in SUBSET Roles : CheckGroupRoles(c, a, g, roles)

-----------------------------------------------------------------------------
(* The second half: the write under its lock, the audit record, the commit.*)

ActiveAdmins == {u \in Users : status[u] = "ACTIVE" /\ "system_admin" \in direct[u]}

\* Mutant: the user itself is counted as one who remains.
LeavesAdminMiscounted(u) == u \in ActiveAdmins => Cardinality(ActiveAdmins) >= 1

\* lockActiveSystemAdmins: more than one is left, and all stay locked until the commit.
LeavesAdmin(u) == u \in ActiveAdmins => Cardinality(ActiveAdmins) > 1

Commit(c) ==
  /\ call' = [call EXCEPT ![c] = Idle]
  /\ stale' = (stale \cup {t \in Calls : call[t] # Idle}) \ {c}

CreateUserWithRoles(c) ==
  /\ call[c].op = "CreateUser"
  /\ status[call[c].user] = "NONE"
  /\ status' = [status EXCEPT ![call[c].user] = "ACTIVE"]
  /\ direct' = [direct EXCEPT ![call[c].user] = call[c].roles]
  /\ Commit(c)
  /\ UNCHANGED <<gstatus, members, groles, grant>>

ReplaceUserRoles(c) ==
  /\ call[c].op = "UpdateUserRoles"
  /\ "system_admin" \in call[c].roles \/ LeavesAdmin(call[c].user)
  /\ direct' = [direct EXCEPT ![call[c].user] = call[c].roles]
  /\ Commit(c)
  /\ UNCHANGED <<status, gstatus, members, groles, grant>>

UpdateUserGroup(c) ==
  /\ call[c].op = "UpdateUserGroup"
  /\ gstatus' = [gstatus EXCEPT ![call[c].group] = call[c].status]
  /\ Commit(c)
  /\ UNCHANGED <<status, direct, members, groles, grant>>

\* Mutant: the members are not looked up.
ReplaceUserGroupMembersUnchecked(c) ==
  /\ call[c].op = "UpdateUserGroupMembers"
  /\ members' = [members EXCEPT ![call[c].group] = call[c].members]
  /\ Commit(c)
  /\ UNCHANGED <<status, direct, gstatus, groles, grant>>

ReplaceUserGroupMembers(c) ==
  /\ call[c].op = "UpdateUserGroupMembers"
  /\ \A u \in call[c].members : status[u] # "NONE"
  /\ members' = [members EXCEPT ![call[c].group] = call[c].members]
  /\ Commit(c)
  /\ UNCHANGED <<status, direct, gstatus, groles, grant>>

ReplaceUserGroupRoles(c) ==
  /\ call[c].op = "UpdateUserGroupRoles"
  /\ groles' = [groles EXCEPT ![call[c].group] = call[c].roles]
  /\ Commit(c)
  /\ UNCHANGED <<status, direct, gstatus, members, grant>>

\* The window that was asked for may lie ahead, have begun, or be over by now.
CreateTemporaryRoleGrant(c) ==
  /\ call[c].op = "CreateTemporaryRoleGrant"
  /\ \E x \in Grants, phase \in {"SCHEDULED", "ACTIVE", "EXPIRED"} :
       /\ grant[x] = NoGrant
       /\ grant' = [grant EXCEPT ![x] = [user |-> call[c].user, role |-> call[c].role, phase |-> phase]]
  /\ Commit(c)
  /\ UNCHANGED <<status, direct, gstatus, members, groles>>

Write(c) ==
  \/ CreateUserWithRoles(c) \/ ReplaceUserRoles(c) \/ UpdateUserGroup(c)
  \/ ReplaceUserGroupMembers(c) \/ ReplaceUserGroupRoles(c) \/ CreateTemporaryRoleGrant(c)

\* The write, the audit record or the commit fails and the transaction is rolled back.
Abort(c) ==
  /\ call[c] # Idle
  /\ call' = [call EXCEPT ![c] = Idle]
  /\ stale' = stale \ {c}
  /\ UNCHANGED <<status, direct, gstatus, members, groles, grant>>

-----------------------------------------------------------------------------
(* Operations that decide and write in one statement or under one lock.    *)

SetUserStatus(u, s) ==
  /\ status[u] # "NONE"
  /\ s = "ACTIVE" \/ LeavesAdmin(u)
  /\ status' = [status EXCEPT ![u] = s]
  /\ UNCHANGED <<direct, gstatus, members, groles, grant, call, stale>>

CreateUserGroup(g, s) ==
  /\ gstatus[g] = "NONE"
  /\ gstatus' = [gstatus EXCEPT ![g] = s]
  /\ UNCHANGED <<status, direct, members, groles, grant, call, stale>>

RevokeTemporaryRoleGrant(x) ==
  /\ grant[x].phase \in {"SCHEDULED", "ACTIVE", "EXPIRED"}
  /\ grant' = [grant EXCEPT ![x].phase = "REVOKED"]
  /\ UNCHANGED <<status, direct, gstatus, members, groles, call, stale>>

\* The clock passes valid_from or valid_until of a grant.
PassTime(x) ==
  /\ grant[x].phase \in {"SCHEDULED", "ACTIVE"}
  /\ grant' = [grant EXCEPT ![x].phase = IF grant[x].phase = "SCHEDULED" THEN "ACTIVE" ELSE "EXPIRED"]
  /\ UNCHANGED <<status, direct, gstatus, members, groles, call, stale>>

Next ==
  \/ \E c \in Calls : Check(c) \/ Write(c) \/ Abort(c)
  \/ \E s \in {"ACTIVE", "DISABLED"} :
       (\E u \in Users : SetUserStatus(u, s)) \/ (\E g \in Groups : CreateUserGroup(g, s))
  \/ \E x \in Grants : RevokeTemporaryRoleGrant(x) \/ PassTime(x)

Spec == Init /\ [][Next]_vars

-----------------------------------------------------------------------------
(* There is an active system administrator, and no sequence of overlapping *)
(* role changes, group changes and deactivations takes the last one away   *)
(* (lockActiveSystemAdmins).                                               *)
AdminKept == ActiveAdmins # {}

StandingRoles(u) == direct[u] \cup UNION {groles[g] : g \in ActiveGroups(u)}

\* The request that ends in this step decided on tables that have changed since.
StaleStep == \E c \in stale : call'[c] = Idle

(* Separation of duties: whatever is assigned, grouped, enabled and        *)
(* disabled, nobody comes to hold two conflicting roles permanently,       *)
(* except through a request that another request overtook                  *)
(* (validateRoleCombination and validateGroupMembers between them).        *)
NoNewConflict ==
  [][~StaleStep => \A u \in Users : hasRoleConflict(StandingRoles(u))' => hasRoleConflict(StandingRoles(u))]_vars

(* Only a system_admin makes a system_admin: neither a group, nor a        *)
(* temporary grant, nor the grant ceiling of a lesser role leads there,    *)
(* except through a request that another request overtook.                 *)
AdminsMadeByAdmins ==
  [][\A u \in Users : "system_admin" \in direct'[u] \ direct[u] =>
       \/ StaleStep
       \/ \E c \in Calls : /\ call[c].op \in {"CreateUser", "UpdateUserRoles"}
                          /\ call[c].byAdmin /\ call'[c] = Idle]_vars

=============================================================================
