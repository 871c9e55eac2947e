------------------------ MODULE RoleAssignmentProofs ------------------------
(***************************************************************************)
(* The last administrator, the grant ceiling and separation of duties, for *)
(* any number of users, groups, roles, rules and overlapping requests.  A  *)
(* request that nobody has overtaken writes what is still right: the       *)
(* invariant says so of every decision kept in memory.                     *)
(***************************************************************************)
EXTENDS RoleAssignment, FiniteSetTheorems, TLAPS

\* The permanent roles of u without those of group g.
StandingWithout(u, g) == direct[u] \cup UNION {groles[h] : h \in ActiveGroups(u) \ {g}}

\* Whoever is in group g, with these members, may hold these roles.
Compatible(g, roles, users) == \A u \in users : ~hasRoleConflict(StandingWithout(u, g) \cup roles)

\* A decision that is right for the tables as they are now.
SoundDecision(d) ==
  /\ d.op = "CreateUser" =>
       /\ "system_admin" \in d.roles => d.byAdmin
       /\ ~hasRoleConflict(d.roles)
  /\ d.op = "UpdateUserRoles" =>
       /\ "system_admin" \in d.roles => d.byAdmin \/ "system_admin" \in direct[d.user]
       /\ ~hasRoleConflict(d.roles \cup GroupRolesForUser(d.user))
  /\ d.op = "UpdateUserGroup" /\ d.status = "ACTIVE" =>
       gstatus[d.group] = "ACTIVE" \/ Compatible(d.group, groles[d.group], members[d.group])
  /\ d.op = "UpdateUserGroupMembers" => Compatible(d.group, groles[d.group], d.members)
  /\ d.op = "UpdateUserGroupRoles" => Compatible(d.group, d.roles, members[d.group])

PendingInv == \A c \in Calls \ stale : SoundDecision(call[c])

\* Only existing groups are written to.
GroupInv ==
  /\ \A g \in Groups : gstatus[g] = "NONE" => members[g] = {}
  /\ \A c \in Calls :
       call[c].op \in {"UpdateUserGroup", "UpdateUserGroupMembers", "UpdateUserGroupRoles"} =>
         gstatus[call[c].group] # "NONE"

IInv == TypeOK /\ AdminKept /\ GroupInv /\ PendingInv

USE RolesAssumption

-----------------------------------------------------------------------------
(* Roles and conflicts.                                                    *)

LEMMA ConflictGrows ==
  ASSUME NEW S, NEW T, S \subseteq T, hasRoleConflict(S)
  PROVE  hasRoleConflict(T)
  BY DEF hasRoleConflict

\* The arguments of a decision.
LEMMA DecisionFields ==
  ASSUME TypeOK, NEW c \in Calls
  PROVE  /\ call[c].op \in {"CreateUser", "UpdateUserRoles"} =>
              call[c].user \in Users /\ call[c].roles \in SUBSET Roles
         /\ call[c].op \in {"UpdateUserGroup", "UpdateUserGroupMembers", "UpdateUserGroupRoles"} =>
              call[c].group \in Groups
         /\ call[c].op = "UpdateUserGroup" => call[c].status \in {"ACTIVE", "DISABLED"}
         /\ call[c].op = "UpdateUserGroupMembers" => call[c].members \in SUBSET Users
         /\ call[c].op = "UpdateUserGroupRoles" => call[c].roles \in SUBSET LimitedRoles
         /\ call[c].op = "CreateTemporaryRoleGrant" => call[c].user \in Users /\ call[c].role \in LimitedRoles
  BY DEF TypeOK, Decisions, Idle

\* What a non-administrator may change never includes system_admin.
LEMMA Ceiling ==
  ASSUME NEW a, NEW current, NEW next, enforceRoleMutation(a, current, next),
         ~IsAdmin(a), "system_admin" \in next
  PROVE  "system_admin" \in current
  BY DEF enforceRoleMutation, changedValues, IsAdmin

\* Groups and grants carry no system_admin.
LEMMA AdminIsDirect ==
  ASSUME TypeOK, NEW u \in Users, "system_admin" \in RolesForUser(u)
  PROVE  "system_admin" \in direct[u]
<1>1. "system_admin" \notin GroupRolesForUser(u)
  BY DEF TypeOK, GroupRolesForUser, ActiveGroups, LimitedRoles
<1>2. "system_admin" \notin TemporaryRoles(u)
  <2> SUFFICES ASSUME NEW x \in Grants, grant[x].phase = "ACTIVE" PROVE grant[x].role # "system_admin"
    BY DEF TemporaryRoles
  <2> QED BY DEF TypeOK, GrantRows, NoGrant, LimitedRoles
<1> QED BY <1>1, <1>2 DEF RolesForUser

LEMMA ValidIsCompatible ==
  ASSUME NEW g, NEW roles, NEW users, validateGroupMembers(g, roles, users)
  PROVE  Compatible(g, roles, users)
<1> SUFFICES ASSUME NEW u \in users, hasRoleConflict(StandingWithout(u, g) \cup roles) PROVE FALSE
  BY DEF Compatible
<1>1. StandingWithout(u, g) \cup roles \subseteq RolesForUserExcludingGroup(u, g) \cup roles
  BY DEF StandingWithout, RolesForUserExcludingGroup
<1> QED BY <1>1, ConflictGrows DEF validateGroupMembers

LEMMA OtherMember ==
  ASSUME NEW S, IsFiniteSet(S), Cardinality(S) > 1, NEW u
  PROVE  \E v \in S : v # u
<1> SUFFICES ASSUME S \subseteq {u} PROVE FALSE
  OBVIOUS
<1>1. IsFiniteSet({u}) /\ Cardinality({u}) = 1
  BY FS_Singleton
<1>2. Cardinality(S) <= 1 /\ Cardinality(S) \in Nat
  BY <1>1, FS_Subset, FS_CardinalityType
<1> QED BY <1>2

\* lockActiveSystemAdmins: somebody else remains.
LEMMA AnotherAdmin ==
  ASSUME NEW u, LeavesAdmin(u), AdminKept
  PROVE  \E v \in ActiveAdmins : v # u
<1>1. IsFiniteSet(ActiveAdmins)
  BY FS_Subset DEF ActiveAdmins
<1> QED BY <1>1, OtherMember DEF LeavesAdmin, AdminKept

LEMMA InitInv == ASSUME Init PROVE IInv
<1>1. TypeOK
  BY DEF Init, TypeOK, Statuses
<1>2. AdminKept
  BY DEF Init, AdminKept, ActiveAdmins
<1>3. GroupInv /\ PendingInv
  BY DEF Init, GroupInv, PendingInv, SoundDecision, Idle
<1> QED BY <1>1, <1>2, <1>3 DEF IInv

-----------------------------------------------------------------------------
(* The first half of a request.                                            *)

Admissible(d) ==
  /\ d \in Decisions
  /\ SoundDecision(d)
  /\ d.op \in {"UpdateUserGroup", "UpdateUserGroupMembers", "UpdateUserGroupRoles"} =>
       gstatus[d.group] # "NONE"

LEMMA DecideInv ==
  ASSUME IInv, NEW c \in Calls, NEW d, Admissible(d), Decide(c, d)
  PROVE  IInv'
<1>1. /\ call' = [call EXCEPT ![c] = d] /\ stale' = stale \ {c}
      /\ UNCHANGED <<status, direct, gstatus, members, groles, grant>>
  BY DEF Decide
<1>2. call'[c] = d /\ \A t \in Calls \ {c} : call'[t] = call[t]
  BY <1>1 DEF IInv, TypeOK
<1>3. TypeOK'
  BY <1>1 DEF IInv, TypeOK, Admissible
<1>4. AdminKept' /\ GroupInv'
  BY <1>1, <1>2 DEF IInv, AdminKept, ActiveAdmins, GroupInv, Admissible
<1>5. PendingInv'
  <2> SUFFICES ASSUME NEW t \in Calls \ stale' PROVE SoundDecision(call[t])'
    BY DEF PendingInv
  <2>1. SoundDecision(call'[t])
    BY <1>1, <1>2 DEF IInv, PendingInv, Admissible
  <2>2. \A u : ActiveGroups(u)' = ActiveGroups(u)
    BY <1>1 DEF ActiveGroups
  <2>3. (\A u, g : StandingWithout(u, g)' = StandingWithout(u, g)) /\ \A u : GroupRolesForUser(u)' = GroupRolesForUser(u)
    BY <1>1, <2>2 DEF StandingWithout, GroupRolesForUser
  <2>4. \A g, roles, users : Compatible(g, roles, users)' <=> Compatible(g, roles, users)
    BY <2>3 DEF Compatible, hasRoleConflict
  <2> QED BY <1>1, <2>1, <2>3, <2>4 DEF SoundDecision, hasRoleConflict
<1> QED BY <1>3, <1>4, <1>5 DEF IInv

LEMMA CheckInv == ASSUME IInv, NEW c \in Calls, Check(c) PROVE IInv'
<1> USE DEF Decisions
<1>a. PICK a \in Users : 
        \/ \E u \in Users, roles \in SUBSET Roles : CheckCreateUser(c, a, u, roles) \/ CheckUserRoles(c, a, u, roles)
        \/ \E u \in Users, role \in Roles : CheckTemporaryGrant(c, a, u, role)
        \/ \E g \in Groups :
             \/ \E s \in {"ACTIVE", "DISABLED"} : CheckUserGroup(c, a, g, s)
             \/ \E users \in SUBSET Users : CheckGroupMembers(c, a, g, users)
             \/ \E roles \in SUBSET Roles : CheckGroupRoles(c, a, g, roles)
  BY DEF Check
<1>1. ASSUME NEW u \in Users, NEW roles \in SUBSET Roles, CheckCreateUser(c, a, u, roles) PROVE IInv'
  <2> DEFINE d == [op |-> "CreateUser", user |-> u, roles |-> roles, byAdmin |-> IsAdmin(a)]
  <2>1. Decide(c, d) /\ enforceRoleMutation(a, {}, roles) /\ ~hasRoleConflict(roles)
    BY <1>1 DEF CheckCreateUser
  <2>2. IsAdmin(a) \in BOOLEAN
    BY DEF IsAdmin
  <2>3. "system_admin" \in roles => IsAdmin(a)
    BY <2>1, Ceiling
  <2>4. Admissible(d)
    BY <2>1, <2>2, <2>3 DEF Admissible, SoundDecision
  <2> QED BY <2>1, <2>4, DecideInv
<1>2. ASSUME NEW u \in Users, NEW roles \in SUBSET Roles, CheckUserRoles(c, a, u, roles) PROVE IInv'
  <2> DEFINE d == [op |-> "UpdateUserRoles", user |-> u, roles |-> roles, byAdmin |-> IsAdmin(a)]
  <2>1. /\ Decide(c, d) /\ \E current \in {RolesForUser(u), {}} : enforceRoleMutation(a, current, roles)
        /\ ~hasRoleConflict(roles \cup GroupRolesForUser(u))
    BY <1>2 DEF CheckUserRoles, RolesRead
  <2>2. IsAdmin(a) \in BOOLEAN
    BY DEF IsAdmin
  <2>3. "system_admin" \in roles => IsAdmin(a) \/ "system_admin" \in direct[u]
    BY <2>1, Ceiling, AdminIsDirect DEF IInv
  <2>4. Admissible(d)
    BY <2>1, <2>2, <2>3 DEF Admissible, SoundDecision
  <2> QED BY <2>1, <2>4, DecideInv
<1>3. ASSUME NEW u \in Users, NEW role \in Roles, CheckTemporaryGrant(c, a, u, role) PROVE IInv'
  <2> DEFINE d == [op |-> "CreateTemporaryRoleGrant", user |-> u, role |-> role]
  <2>1. Decide(c, d) /\ role \in LimitedRoles
    BY <1>3 DEF CheckTemporaryGrant, LimitedRoles
  <2>2. Admissible(d)
    BY <2>1 DEF Admissible, SoundDecision
  <2> QED BY <2>1, <2>2, DecideInv
<1>4. ASSUME NEW g \in Groups, NEW s \in {"ACTIVE", "DISABLED"}, CheckUserGroup(c, a, g, s) PROVE IInv'
  <2> DEFINE d == [op |-> "UpdateUserGroup", group |-> g, status |-> s]
  <2>1. /\ Decide(c, d) /\ gstatus[g] # "NONE"
        /\ s = "ACTIVE" => gstatus[g] = "ACTIVE" \/ validateGroupMembers(g, groles[g], members[g])
    BY <1>4 DEF CheckUserGroup
  <2>2. Admissible(d)
    BY <2>1, ValidIsCompatible DEF Admissible, SoundDecision
  <2> QED BY <2>1, <2>2, DecideInv
<1>5. ASSUME NEW g \in Groups, NEW users \in SUBSET Users, CheckGroupMembers(c, a, g, users) PROVE IInv'
  <2> DEFINE d == [op |-> "UpdateUserGroupMembers", group |-> g, members |-> users]
  <2>1. Decide(c, d) /\ gstatus[g] # "NONE" /\ validateGroupMembers(g, groles[g], users)
    BY <1>5 DEF CheckGroupMembers
  <2>2. Admissible(d)
    BY <2>1, ValidIsCompatible DEF Admissible, SoundDecision
  <2> QED BY <2>1, <2>2, DecideInv
<1>6. ASSUME NEW g \in Groups, NEW roles \in SUBSET Roles, CheckGroupRoles(c, a, g, roles) PROVE IInv'
  <2> DEFINE d == [op |-> "UpdateUserGroupRoles", group |-> g, roles |-> roles]
  <2>1. /\ Decide(c, d) /\ gstatus[g] # "NONE" /\ validateGroupMembers(g, roles, members[g])
        /\ roles \in SUBSET LimitedRoles
    BY <1>6 DEF CheckGroupRoles, LimitedRoles
  <2>2. Admissible(d)
    BY <2>1, ValidIsCompatible DEF Admissible, SoundDecision
  <2> QED BY <2>1, <2>2, DecideInv
<1> QED BY <1>a, <1>1, <1>2, <1>3, <1>4, <1>5, <1>6

-----------------------------------------------------------------------------
(* The second half.  Whoever else was in the middle of a request is stale  *)
(* after a commit, so that no decision is left to be judged.               *)

LEMMA CommitInv ==
  ASSUME IInv, NEW c \in Calls, Commit(c)
  PROVE  /\ call'[c] = Idle /\ \A t \in Calls : call'[t] = call[t] \/ call'[t] = Idle
         /\ call' \in [Calls -> Decisions \cup {Idle}] /\ stale' \subseteq Calls
         /\ PendingInv'
<1>1. call'[c] = Idle /\ \A t \in Calls \ {c} : call'[t] = call[t]
  BY DEF IInv, TypeOK, Commit
<1>2. \A t \in Calls \ stale' : call'[t] = Idle
  BY <1>1 DEF Commit
<1>3. PendingInv'
  BY <1>2 DEF PendingInv, SoundDecision, Idle
<1> QED BY <1>1, <1>3 DEF IInv, TypeOK, Commit

LEMMA WriteInv == ASSUME IInv, NEW c \in Calls, Write(c) PROVE IInv'
<1>1. CASE CreateUserWithRoles(c)
  <2>1. PICK u \in Users, roles \in SUBSET Roles :
          /\ status[u] = "NONE" /\ Commit(c)
          /\ status' = [status EXCEPT ![u] = "ACTIVE"] /\ direct' = [direct EXCEPT ![u] = roles]
          /\ UNCHANGED <<gstatus, members, groles, grant>>
    BY <1>1, DecisionFields DEF CreateUserWithRoles, IInv
  <2>2. TypeOK'
    BY <2>1, CommitInv DEF IInv, TypeOK, Statuses
  <2>3. ActiveAdmins \subseteq ActiveAdmins'
    BY <2>1 DEF IInv, TypeOK, ActiveAdmins
  <2>4. GroupInv'
    BY <2>1, CommitInv DEF IInv, GroupInv, Idle
  <2> QED BY <2>1, <2>2, <2>3, <2>4, CommitInv DEF IInv, AdminKept
<1>2. CASE ReplaceUserRoles(c)
  <2>1. PICK u \in Users, roles \in SUBSET Roles :
          /\ "system_admin" \in roles \/ LeavesAdmin(u)
          /\ Commit(c) /\ direct' = [direct EXCEPT ![u] = roles]
          /\ UNCHANGED <<status, gstatus, members, groles, grant>>
    BY <1>2, DecisionFields DEF ReplaceUserRoles, IInv
  <2>2. TypeOK'
    BY <2>1, CommitInv DEF IInv, TypeOK
  <2>3. AdminKept'
    <3>1. CASE "system_admin" \in roles
      <4>1. ActiveAdmins \subseteq ActiveAdmins'
        BY <2>1, <3>1 DEF IInv, TypeOK, ActiveAdmins
      <4> QED BY <4>1 DEF IInv, AdminKept
    <3>2. CASE LeavesAdmin(u)
      <4>1. PICK v \in ActiveAdmins : v # u
        BY <3>2, AnotherAdmin DEF IInv
      <4>2. v \in ActiveAdmins'
        BY <2>1, <4>1 DEF IInv, TypeOK, ActiveAdmins
      <4> QED BY <4>2 DEF AdminKept
    <3> QED BY <2>1, <3>1, <3>2
  <2>4. GroupInv'
    BY <2>1, CommitInv DEF IInv, GroupInv, Idle
  <2> QED BY <2>1, <2>2, <2>3, <2>4, CommitInv DEF IInv
<1>3. CASE UpdateUserGroup(c)
  <2>1. PICK g \in Groups, s \in {"ACTIVE", "DISABLED"} :
          /\ Commit(c) /\ gstatus' = [gstatus EXCEPT ![g] = s]
          /\ UNCHANGED <<status, direct, members, groles, grant>>
    BY <1>3, DecisionFields DEF UpdateUserGroup, IInv
  <2>2. TypeOK'
    BY <2>1, CommitInv DEF IInv, TypeOK, Statuses
  <2>3. \A h \in Groups : gstatus[h] # "NONE" => gstatus'[h] # "NONE"
    BY <2>1 DEF IInv, TypeOK
  <2>4. GroupInv'
    <3>1. \A t \in Calls : call'[t].op # "IDLE" => call'[t] = call[t]
      BY <2>1, CommitInv DEF Idle
    <3> QED BY <2>1, <2>3, <3>1, DecisionFields DEF IInv, GroupInv
  <2>5. AdminKept'
    BY <2>1 DEF IInv, AdminKept, ActiveAdmins
  <2> QED BY <2>1, <2>2, <2>4, <2>5, CommitInv DEF IInv
<1>4. CASE ReplaceUserGroupMembers(c)
  <2>1. PICK g \in Groups, users \in SUBSET Users :
          /\ gstatus[g] # "NONE" /\ \A u \in users : status[u] # "NONE"
          /\ Commit(c) /\ members' = [members EXCEPT ![g] = users]
          /\ UNCHANGED <<status, direct, gstatus, groles, grant>>
    BY <1>4, DecisionFields DEF ReplaceUserGroupMembers, IInv, GroupInv
  <2>2. TypeOK'
    BY <2>1, CommitInv DEF IInv, TypeOK
  <2>3. GroupInv'
    BY <2>1, CommitInv DEF IInv, TypeOK, GroupInv, Idle
  <2>4. AdminKept'
    BY <2>1 DEF IInv, AdminKept, ActiveAdmins
  <2> QED BY <2>1, <2>2, <2>3, <2>4, CommitInv DEF IInv
<1>5. CASE ReplaceUserGroupRoles(c)
  <2>1. PICK g \in Groups, roles \in SUBSET LimitedRoles :
          /\ Commit(c) /\ groles' = [groles EXCEPT ![g] = roles]
          /\ UNCHANGED <<status, direct, gstatus, members, grant>>
    BY <1>5, DecisionFields DEF ReplaceUserGroupRoles, IInv
  <2>2. TypeOK'
    BY <2>1, CommitInv DEF IInv, TypeOK
  <2>3. GroupInv' /\ AdminKept'
    BY <2>1, CommitInv DEF IInv, GroupInv, Idle, AdminKept, ActiveAdmins
  <2> QED BY <2>1, <2>2, <2>3, CommitInv DEF IInv
<1>6. CASE CreateTemporaryRoleGrant(c)
  <2>1. PICK x \in Grants, row \in GrantRows :
          /\ Commit(c) /\ grant' = [grant EXCEPT ![x] = row]
          /\ UNCHANGED <<status, direct, gstatus, members, groles>>
    BY <1>6, DecisionFields DEF CreateTemporaryRoleGrant, IInv, GrantRows
  <2>2. TypeOK'
    BY <2>1, CommitInv DEF IInv, TypeOK
  <2>3. GroupInv' /\ AdminKept'
    BY <2>1, CommitInv DEF IInv, GroupInv, Idle, AdminKept, ActiveAdmins
  <2> QED BY <2>1, <2>2, <2>3, CommitInv DEF IInv
<1> QED BY <1>1, <1>2, <1>3, <1>4, <1>5, <1>6 DEF Write

-----------------------------------------------------------------------------
(* Everything else leaves every permanent role where it is.                *)

LEMMA QuietInv ==
  ASSUME IInv, UNCHANGED <<direct, members, groles>>,
         \A g \in Groups : gstatus'[g] = gstatus[g] \/ (gstatus[g] = "NONE" /\ gstatus'[g] # "NONE"),
         \A t \in Calls \ stale' : call'[t] = Idle \/ (call'[t] = call[t] /\ t \notin stale),
         \A t \in Calls : call'[t] = Idle \/ call'[t] = call[t]
  PROVE  GroupInv' /\ PendingInv'
<1>1. \A u : ActiveGroups(u)' = ActiveGroups(u)
  BY DEF IInv, GroupInv, ActiveGroups
<1>2. \A t \in Calls :
        call[t].op \in {"UpdateUserGroup", "UpdateUserGroupMembers", "UpdateUserGroupRoles"} =>
          call[t].group \in Groups
  BY DecisionFields DEF IInv
<1>3. GroupInv'
  BY <1>2 DEF IInv, GroupInv, Idle
<1>4. ASSUME NEW t \in Calls, SoundDecision(call[t]), call'[t] = call[t] PROVE SoundDecision(call[t])'
  <2>1. \A u, g : StandingWithout(u, g)' = StandingWithout(u, g)
    BY <1>1 DEF StandingWithout
  <2>2. \A u : GroupRolesForUser(u)' = GroupRolesForUser(u)
    BY <1>1 DEF GroupRolesForUser
  <2>3. \A g, roles, users : (Compatible(g, roles, users)' <=> Compatible(g, roles, users))
    BY <2>1 DEF Compatible, hasRoleConflict
  <2> QED BY <1>2, <1>4, <2>2, <2>3 DEF SoundDecision, hasRoleConflict
<1>5. PendingInv'
  <2> SUFFICES ASSUME NEW t \in Calls, t \notin stale' PROVE SoundDecision(call[t])'
    BY DEF PendingInv
  <2>1. CASE call'[t] = Idle
    BY <2>1 DEF SoundDecision, Idle
  <2>2. CASE call'[t] = call[t] /\ t \notin stale
    BY <1>4, <2>2 DEF IInv, PendingInv
  <2> QED BY <2>1, <2>2
<1> QED BY <1>3, <1>5

LEMMA StepInv == ASSUME IInv, [Next]_vars PROVE IInv'
<1>1. ASSUME NEW c \in Calls, Abort(c) PROVE IInv'
  <2>1. /\ call' = [call EXCEPT ![c] = Idle] /\ stale' = stale \ {c}
        /\ UNCHANGED <<status, direct, gstatus, members, groles, grant>>
    BY <1>1 DEF Abort
  <2>2. call'[c] = Idle /\ \A t \in Calls \ {c} : call'[t] = call[t]
    BY <2>1 DEF IInv, TypeOK
  <2>3. GroupInv' /\ PendingInv'
    BY <2>1, <2>2, QuietInv
  <2>4. TypeOK' /\ AdminKept'
    BY <2>1 DEF IInv, TypeOK, AdminKept, ActiveAdmins
  <2> QED BY <2>3, <2>4 DEF IInv
<1>2. ASSUME NEW u \in Users, NEW s \in {"ACTIVE", "DISABLED"}, SetUserStatus(u, s) PROVE IInv'
  <2>1. /\ s = "ACTIVE" \/ LeavesAdmin(u)
        /\ status' = [status EXCEPT ![u] = s]
        /\ UNCHANGED <<direct, gstatus, members, groles, grant, call, stale>>
    BY <1>2 DEF SetUserStatus
  <2>2. GroupInv' /\ PendingInv'
    BY <2>1, QuietInv
  <2>3. TypeOK'
    BY <2>1 DEF IInv, TypeOK, Statuses
  <2>4. AdminKept'
    <3>1. CASE s = "ACTIVE"
      <4>1. ActiveAdmins \subseteq ActiveAdmins'
        BY <2>1, <3>1 DEF IInv, TypeOK, ActiveAdmins
      <4> QED BY <4>1 DEF IInv, AdminKept
    <3>2. CASE LeavesAdmin(u)
      <4>1. PICK v \in ActiveAdmins : v # u
        BY <3>2, AnotherAdmin DEF IInv
      <4>2. v \in ActiveAdmins'
        BY <2>1, <4>1 DEF IInv, TypeOK, ActiveAdmins
      <4> QED BY <4>2 DEF AdminKept
    <3> QED BY <2>1, <3>1, <3>2
  <2> QED BY <2>2, <2>3, <2>4 DEF IInv
<1>3. ASSUME NEW g \in Groups, NEW s \in {"ACTIVE", "DISABLED"}, CreateUserGroup(g, s) PROVE IInv'
  <2>1. /\ gstatus[g] = "NONE" /\ gstatus' = [gstatus EXCEPT ![g] = s]
        /\ UNCHANGED <<status, direct, members, groles, grant, call, stale>>
    BY <1>3 DEF CreateUserGroup
  <2>2. \A h \in Groups : gstatus'[h] = gstatus[h] \/ (gstatus[h] = "NONE" /\ gstatus'[h] # "NONE")
    BY <2>1 DEF IInv, TypeOK
  <2>3. GroupInv' /\ PendingInv'
    BY <2>1, <2>2, QuietInv
  <2>4. TypeOK' /\ AdminKept'
    BY <2>1 DEF IInv, TypeOK, Statuses, AdminKept, ActiveAdmins
  <2> QED BY <2>3, <2>4 DEF IInv
<1>4. ASSUME NEW x \in Grants, RevokeTemporaryRoleGrant(x) \/ PassTime(x) PROVE IInv'
  <2>1. /\ grant[x].phase \in {"SCHEDULED", "ACTIVE", "EXPIRED"}
        /\ \E phase \in {"ACTIVE", "EXPIRED", "REVOKED"} : grant' = [grant EXCEPT ![x].phase = phase]
        /\ UNCHANGED <<status, direct, gstatus, members, groles, call, stale>>
    BY <1>4 DEF RevokeTemporaryRoleGrant, PassTime
  <2>2. GroupInv' /\ PendingInv'
    BY <2>1, QuietInv
  <2>3. grant' \in [Grants -> GrantRows \cup {NoGrant}]
    <3>1. grant[x] \in GrantRows
      BY <2>1 DEF IInv, TypeOK, NoGrant
    <3> QED BY <2>1, <3>1 DEF IInv, TypeOK, GrantRows
  <2>4. TypeOK' /\ AdminKept'
    BY <2>1, <2>3 DEF IInv, TypeOK, AdminKept, ActiveAdmins
  <2> QED BY <2>2, <2>4 DEF IInv
<1>5. CASE UNCHANGED vars
  <2>1. GroupInv' /\ PendingInv'
    BY <1>5, QuietInv DEF vars
  <2> QED BY <1>5, <2>1 DEF vars, IInv, TypeOK, AdminKept, ActiveAdmins
<1> QED BY <1>1, <1>2, <1>3, <1>4, <1>5, CheckInv, WriteInv DEF Next

-----------------------------------------------------------------------------
(* The invariant as a theorem of the specification: every decision that    *)
(* nobody has overtaken is still right for the tables (Check and Write).   *)
THEOREM Invariance == Spec => []IInv
  BY InitInv, StepInv, PTL DEF Spec

(* Rows and decisions keep their types; in particular no group and no      *)
(* temporary grant ever carries system_admin, and the members of a group   *)
(* exist (ReplaceUserGroupMembers, ReplaceUserGroupRoles).                 *)
THEOREM TypeCorrect == Spec => []TypeOK
<1>1. IInv => TypeOK
  BY DEF IInv
<1> QED BY <1>1, Invariance, PTL

(* ReplaceUserRoles and SetUserStatus never take the last active system    *)
(* administrator away, whatever else is in flight.                         *)
THEOREM LastAdministrator == Spec => []AdminKept
<1>1. IInv => AdminKept
  BY DEF IInv
<1> QED BY <1>1, Invariance, PTL

\* A request that is not stale when it writes is as sound as when it was decided.
LEMMA FreshWrite ==
  ASSUME IInv, NEW c \in Calls, Commit(c), ~StaleStep
  PROVE  c \notin stale /\ call'[c] = Idle /\ SoundDecision(call[c])
<1>1. call'[c] = Idle
  BY CommitInv
<1> QED BY <1>1 DEF StaleStep, IInv, PendingInv

\* The steps that change a permanent role are the writes, and direct roles are changed by two of them.
LEMMA RoleSteps ==
  ASSUME IInv, [Next]_vars
  PROVE  \/ /\ direct' = direct
            /\ \A u : StandingRoles(u)' = StandingRoles(u)
         \/ \E c \in Calls : \/ CreateUserWithRoles(c) \/ ReplaceUserRoles(c) \/ UpdateUserGroup(c)
                             \/ ReplaceUserGroupMembers(c) \/ ReplaceUserGroupRoles(c)
<1>1. ASSUME NEW g \in Groups, NEW s, CreateUserGroup(g, s)
      PROVE  direct' = direct /\ \A u : StandingRoles(u)' = StandingRoles(u)
  <2>1. UNCHANGED <<direct, members, groles>> /\ \A u : ActiveGroups(u)' = ActiveGroups(u)
    BY <1>1 DEF CreateUserGroup, ActiveGroups, IInv, GroupInv, TypeOK
  <2> QED BY <2>1 DEF StandingRoles
<1>2. ASSUME UNCHANGED <<direct, gstatus, members, groles>>
      PROVE  direct' = direct /\ \A u : StandingRoles(u)' = StandingRoles(u)
  <2>1. \A u : ActiveGroups(u)' = ActiveGroups(u)
    BY <1>2 DEF ActiveGroups
  <2> QED BY <1>2, <2>1 DEF StandingRoles
<1>3. ASSUME NEW c \in Calls, Check(c) \/ Abort(c) PROVE UNCHANGED <<direct, gstatus, members, groles>>
  BY <1>3 DEF Check, Abort, CheckCreateUser, CheckUserRoles, CheckUserGroup, CheckGroupMembers,
              CheckGroupRoles, CheckTemporaryGrant, Decide
<1>4. ASSUME NEW c \in Calls, CreateTemporaryRoleGrant(c) PROVE UNCHANGED <<direct, gstatus, members, groles>>
  BY <1>4 DEF CreateTemporaryRoleGrant
<1>5. CASE UNCHANGED vars
  BY <1>2, <1>5 DEF vars
<1>6. CASE Next
  <2>1. ASSUME NEW u \in Users, NEW s, SetUserStatus(u, s) PROVE UNCHANGED <<direct, gstatus, members, groles>>
    BY <2>1 DEF SetUserStatus
  <2>2. ASSUME NEW x \in Grants, RevokeTemporaryRoleGrant(x) \/ PassTime(x)
        PROVE  UNCHANGED <<direct, gstatus, members, groles>>
    BY <2>2 DEF RevokeTemporaryRoleGrant, PassTime
  <2>3. \/ UNCHANGED <<direct, gstatus, members, groles>>
        \/ \E g \in Groups, s \in {"ACTIVE", "DISABLED"} : CreateUserGroup(g, s)
        \/ \E c \in Calls : \/ CreateUserWithRoles(c) \/ ReplaceUserRoles(c) \/ UpdateUserGroup(c)
                            \/ ReplaceUserGroupMembers(c) \/ ReplaceUserGroupRoles(c)
    BY <1>3, <1>4, <1>6, <2>1, <2>2 DEF Next, Write
  <2> QED BY <1>1, <1>2, <2>3
<1> QED BY <1>5, <1>6

(* CreateUser and UpdateUserRoles: only a request of a system_admin makes  *)
(* somebody a system_admin, unless another request has overtaken it.       *)
THEOREM GrantCeiling == Spec => AdminsMadeByAdmins
<1> DEFINE Step == \A u \in Users : "system_admin" \in direct'[u] \ direct[u] =>
                     \/ StaleStep
                     \/ \E c \in Calls : /\ call[c].op \in {"CreateUser", "UpdateUserRoles"}
                                        /\ call[c].byAdmin /\ call'[c] = Idle
<1>1. ASSUME IInv, [Next]_vars PROVE Step
  <2> SUFFICES ASSUME NEW u \in Users, "system_admin" \in direct'[u] \ direct[u], ~StaleStep
               PROVE  \E c \in Calls : /\ call[c].op \in {"CreateUser", "UpdateUserRoles"}
                                       /\ call[c].byAdmin /\ call'[c] = Idle
    OBVIOUS
  <2>1. PICK c \in Calls : \/ CreateUserWithRoles(c) \/ ReplaceUserRoles(c) \/ UpdateUserGroup(c)
                           \/ ReplaceUserGroupMembers(c) \/ ReplaceUserGroupRoles(c)
    BY <1>1, RoleSteps
  <2>2. CreateUserWithRoles(c) \/ ReplaceUserRoles(c)
    BY <2>1 DEF UpdateUserGroup, ReplaceUserGroupMembers, ReplaceUserGroupRoles
  <2>3. /\ call[c].op \in {"CreateUser", "UpdateUserRoles"} /\ Commit(c)
        /\ direct' = [direct EXCEPT ![call[c].user] = call[c].roles]
    BY <2>2 DEF CreateUserWithRoles, ReplaceUserRoles
  <2>4. u = call[c].user /\ "system_admin" \in call[c].roles /\ "system_admin" \notin direct[u]
    BY <1>1, <2>3, DecisionFields DEF IInv, TypeOK
  <2>5. SoundDecision(call[c]) /\ call'[c] = Idle
    BY <1>1, <2>3, FreshWrite
  <2> QED BY <2>3, <2>4, <2>5 DEF SoundDecision
<1>2. ASSUME IInv, [Next]_vars PROVE [Step]_vars
  BY <1>1, <1>2
<1> QED BY <1>2, Invariance, PTL DEF Spec, AdminsMadeByAdmins

\* Conflicts that a fresh write leaves behind were there before it.
LEMMA FreshConflicts ==
  ASSUME IInv, ~StaleStep, NEW c \in Calls, NEW u \in Users,
         \/ CreateUserWithRoles(c) \/ ReplaceUserRoles(c) \/ UpdateUserGroup(c)
         \/ ReplaceUserGroupMembers(c) \/ ReplaceUserGroupRoles(c),
         hasRoleConflict(StandingRoles(u)')
  PROVE  hasRoleConflict(StandingRoles(u))
<1> DEFINE d == call[c]
<1>1. SoundDecision(d) /\ Commit(c)
  BY FreshWrite DEF CreateUserWithRoles, ReplaceUserRoles, UpdateUserGroup, ReplaceUserGroupMembers, ReplaceUserGroupRoles
<1>2. CASE CreateUserWithRoles(c)
  <2>1. /\ d.op = "CreateUser" /\ status[d.user] = "NONE" /\ d.user \in Users
        /\ direct' = [direct EXCEPT ![d.user] = d.roles] /\ UNCHANGED <<gstatus, members, groles>>
    BY <1>2, DecisionFields DEF CreateUserWithRoles, IInv
  <2>2. ActiveGroups(u)' = ActiveGroups(u)
    BY <2>1 DEF ActiveGroups
  <2>3. CASE u = d.user
    <3>1. ActiveGroups(u) = {} /\ direct'[u] = d.roles
      BY <2>1, <2>3 DEF ActiveGroups, IInv, TypeOK
    <3>2. StandingRoles(u)' = d.roles
      BY <2>2, <3>1 DEF StandingRoles
    <3> QED BY <1>1, <2>1, <3>2 DEF SoundDecision
  <2>4. CASE u # d.user
    <3>1. StandingRoles(u)' = StandingRoles(u)
      BY <2>1, <2>2, <2>4 DEF StandingRoles, IInv, TypeOK
    <3> QED BY <3>1
  <2> QED BY <2>3, <2>4
<1>3. CASE ReplaceUserRoles(c)
  <2>1. /\ d.op = "UpdateUserRoles" /\ d.user \in Users
        /\ direct' = [direct EXCEPT ![d.user] = d.roles] /\ UNCHANGED <<gstatus, members, groles>>
    BY <1>3, DecisionFields DEF ReplaceUserRoles, IInv
  <2>2. ActiveGroups(u)' = ActiveGroups(u)
    BY <2>1 DEF ActiveGroups
  <2>3. CASE u = d.user
    <3>1. direct'[u] = d.roles
      BY <2>1, <2>3 DEF IInv, TypeOK
    <3>2. StandingRoles(u)' = d.roles \cup GroupRolesForUser(u)
      BY <2>1, <2>2, <3>1 DEF StandingRoles, GroupRolesForUser
    <3> QED BY <1>1, <2>1, <2>3, <3>2 DEF SoundDecision
  <2>4. CASE u # d.user
    <3>1. StandingRoles(u)' = StandingRoles(u)
      BY <2>1, <2>2, <2>4 DEF StandingRoles, IInv, TypeOK
    <3> QED BY <3>1
  <2> QED BY <2>3, <2>4
<1>4. CASE UpdateUserGroup(c)
  <2>1. /\ d.op = "UpdateUserGroup" /\ d.group \in Groups
        /\ gstatus' = [gstatus EXCEPT ![d.group] = d.status] /\ UNCHANGED <<direct, members, groles>>
    BY <1>4, DecisionFields DEF UpdateUserGroup, IInv
  <2>2. ActiveGroups(u)' \ {d.group} = ActiveGroups(u) \ {d.group}
    BY <2>1 DEF ActiveGroups, IInv, TypeOK
  <2>3. CASE d.group \in ActiveGroups(u)' /\ d.group \notin ActiveGroups(u)
    <3>1. u \in members[d.group] /\ d.status = "ACTIVE" /\ gstatus[d.group] # "ACTIVE"
      BY <2>1, <2>3 DEF ActiveGroups, IInv, TypeOK
    <3>2. ~hasRoleConflict(StandingWithout(u, d.group) \cup groles[d.group])
      BY <1>1, <2>1, <3>1 DEF SoundDecision, Compatible
    <3>3. StandingRoles(u)' \subseteq StandingWithout(u, d.group) \cup groles[d.group]
      BY <2>1, <2>2 DEF StandingRoles, StandingWithout
    <3> QED BY <3>2, <3>3, ConflictGrows
  <2>4. CASE ~(d.group \in ActiveGroups(u)' /\ d.group \notin ActiveGroups(u))
    <3>1. ActiveGroups(u)' \subseteq ActiveGroups(u)
      BY <2>2, <2>4
    <3>2. StandingRoles(u)' \subseteq StandingRoles(u)
      BY <2>1, <3>1 DEF StandingRoles
    <3> QED BY <3>2, ConflictGrows
  <2> QED BY <2>3, <2>4
<1>5. CASE ReplaceUserGroupMembers(c)
  <2>1. /\ d.op = "UpdateUserGroupMembers" /\ d.group \in Groups
        /\ members' = [members EXCEPT ![d.group] = d.members] /\ UNCHANGED <<direct, gstatus, groles>>
    BY <1>5, DecisionFields DEF ReplaceUserGroupMembers, IInv
  <2>2. ActiveGroups(u)' \ {d.group} = ActiveGroups(u) \ {d.group}
    BY <2>1 DEF ActiveGroups, IInv, TypeOK
  <2>3. CASE d.group \in ActiveGroups(u)'
    <3>1. u \in d.members
      BY <2>1, <2>3 DEF ActiveGroups, IInv, TypeOK
    <3>2. ~hasRoleConflict(StandingWithout(u, d.group) \cup groles[d.group])
      BY <1>1, <2>1, <3>1 DEF SoundDecision, Compatible
    <3>3. StandingRoles(u)' \subseteq StandingWithout(u, d.group) \cup groles[d.group]
      BY <2>1, <2>2 DEF StandingRoles, StandingWithout
    <3> QED BY <3>2, <3>3, ConflictGrows
  <2>4. CASE d.group \notin ActiveGroups(u)'
    <3>1. ActiveGroups(u)' \subseteq ActiveGroups(u)
      BY <2>2, <2>4
    <3>2. StandingRoles(u)' \subseteq StandingRoles(u)
      BY <2>1, <3>1 DEF StandingRoles
    <3> QED BY <3>2, ConflictGrows
  <2> QED BY <2>3, <2>4
<1>6. CASE ReplaceUserGroupRoles(c)
  <2>1. /\ d.op = "UpdateUserGroupRoles" /\ d.group \in Groups
        /\ groles' = [groles EXCEPT ![d.group] = d.roles] /\ UNCHANGED <<direct, gstatus, members>>
    BY <1>6, DecisionFields DEF ReplaceUserGroupRoles, IInv
  <2>2. ActiveGroups(u)' = ActiveGroups(u)
    BY <2>1 DEF ActiveGroups
  <2>3. groles'[d.group] = d.roles /\ \A h \in Groups \ {d.group} : groles'[h] = groles[h]
    BY <2>1 DEF IInv, TypeOK
  <2>4. CASE d.group \in ActiveGroups(u)
    <3>1. u \in members[d.group]
      BY <2>4 DEF ActiveGroups
    <3>2. ~hasRoleConflict(StandingWithout(u, d.group) \cup d.roles)
      BY <1>1, <2>1, <3>1 DEF SoundDecision, Compatible
    <3>3. StandingRoles(u)' \subseteq StandingWithout(u, d.group) \cup d.roles
      BY <2>1, <2>2, <2>3 DEF StandingRoles, StandingWithout, ActiveGroups
    <3> QED BY <3>2, <3>3, ConflictGrows
  <2>5. CASE d.group \notin ActiveGroups(u)
    <3>1. StandingRoles(u)' \subseteq StandingRoles(u)
      BY <2>1, <2>2, <2>3, <2>5 DEF StandingRoles, ActiveGroups
    <3> QED BY <3>1, ConflictGrows
  <2> QED BY <2>4, <2>5
<1> QED BY <1>2, <1>3, <1>4, <1>5, <1>6

(* validateRoleCombination and validateGroupMembers together: nobody comes *)
(* to hold conflicting roles permanently, unless through a request that    *)
(* another one has overtaken.                                              *)
THEOREM SeparationOfDuties == Spec => NoNewConflict
<1> DEFINE Step == ~StaleStep =>
                     \A u \in Users : hasRoleConflict(StandingRoles(u))' => hasRoleConflict(StandingRoles(u))
<1>1. ASSUME IInv, [Next]_vars PROVE Step
  <2> SUFFICES ASSUME ~StaleStep, NEW u \in Users, hasRoleConflict(StandingRoles(u)')
               PROVE  hasRoleConflict(StandingRoles(u))
    BY DEF hasRoleConflict
  <2>1. CASE StandingRoles(u)' = StandingRoles(u)
    BY <2>1
  <2>2. CASE StandingRoles(u)' # StandingRoles(u)
    BY <1>1, <2>2, RoleSteps, FreshConflicts
  <2> QED BY <2>1, <2>2
<1>2. ASSUME IInv, [Next]_vars PROVE [Step]_vars
  BY <1>1, <1>2
<1> QED BY <1>2, Invariance, PTL DEF Spec, NoNewConflict

=============================================================================
